---- MODULE Spec2Model ----
(***************************************************************************)
(* Model of the agent chatbot's orchestration layer:                       *)
(*   - SessionRegistry and SkillAPIServer (src/skill-api)                  *)
(*   - ReplyHandler (src/skills/reply-handler.ts)                          *)
(*   - MessageHandler, SessionOrchestrator, ReplyDispatcher, AgentCore     *)
(*   - ChatbotClient file access (src/acp/client.ts)                       *)
(*                                                                         *)
(* The runtime is a single-threaded event loop: code between two awaits    *)
(* runs without interleaving, so each action below is one such segment.    *)
(***************************************************************************)
EXTENDS Integers, Sequences, FiniteSets, TLC

(***************************************************************************)
(* Bounds                                                                  *)
(***************************************************************************)
MaxSessions == 1
MaxRequests == 2
MaxTime == 2

(* timeoutMs values sessions are registered with, in clock ticks *)
Timeouts == {1}

SessionIds == 1..MaxSessions
UnknownSid == 0
NoSid == -1
BadJson == -2

WsKeys == {"discord/1/10", "discord/2/20"}

Undefined == [undefined |-> TRUE]

VARIABLES
  now,           \* Date.now()
  sessions,      \* SessionRegistry.sessions : id -> ActiveSession
  nextId,        \* ids issued so far (generateSessionId never repeats)
  replySentMap,  \* ReplyHandler.replySentMap : keys mapped to true
  inflight,      \* gateway requests suspended at an await
  nreq,          \* gateway requests received so far
  lastResp,      \* the HTTP response written last
  sentCount,     \* history: successful adapter.sendReply calls per session
  ok200,         \* history: sessions for which a send-reply returned 200
  failed400,     \* history: per session, the number of requests received when
                 \* a send-reply that ran was last answered 400 (0: never)
  markTrue,      \* history: markReplySent calls that returned true, per id
  markBy,        \* history: callers of markReplySent on a present record
  evicted,       \* history: ids whose expired record a get() deleted
  tasks,         \* AgentCore.handleEvent invocations, one per delivered event
  ntasks,        \* events delivered so far
  activeEvents,  \* MessageHandler.activeEvents
  calls,         \* handleSendReply invocations suspended at the adapter call
  ncalls,        \* handleSendReply invocations made by agents so far
  replies,       \* history: replies the platform accepted, per event
  notices,       \* history: error notices the platform accepted, per event
  fsPath,        \* params.path of the file request
  fsLinks,       \* symbolic links present in the file system
  fsOp,          \* what the file request did
  permReq,       \* params of the permission request
  permRes,       \* what requestPermission answered
  mkNote,        \* the Misskey note the bot is answering
  mkCall,        \* the MisskeyAdapter.sendReply invocation under way
  mkPosted       \* history: params of the notes/create requests that succeeded

gwVars == <<now, sessions, nextId, inflight, nreq,
            lastResp, sentCount, ok200, failed400, markTrue, markBy, evicted>>

coreVars == <<tasks, ntasks, activeEvents, calls, ncalls, replies, notices>>

fsVars == <<fsPath, fsLinks, fsOp>>

permVars == <<permReq, permRes>>

mkVars == <<mkNote, mkCall, mkPosted>>

VARIABLES
  memIsDm,       \* workspace.isDm of the workspace the memory skills run in
  memFiles,      \* memory.public.jsonl and memory.private.jsonl of the workspace
  memClock,      \* ts of the memory event written last
  memCalls,      \* memory skill calls made so far
  memNextId,     \* memory ids issued so far
  memOp,         \* the memory skill call made last and its result
  memSaved,      \* history: id and content of every memory save that succeeded
  memPatched     \* history: target and changes of every patch that succeeded, and
                 \* the number of ids issued before it

VARIABLES
  srvConfig,     \* SkillAPIServer.config
  srvServer      \* SkillAPIServer.server: the host name it listens on, "" for null

srvVars == <<srvConfig, srvServer>>

VARIABLES
  inConfig,      \* the adapters' configuration
  dcBotId,       \* DiscordAdapter.botId, "" for null
  mkBotId,       \* MisskeyAdapter.botId, "" for null
  inLast         \* the message an adapter handled last and whether it emitted an event

inVars == <<inConfig, dcBotId, mkBotId, inLast>>

VARIABLES
  cm,            \* ConnectionManager: config, isShuttingDown, the loop's position
  cmWait,        \* history: the sleep connectWithRetry started last
  mr,            \* MisskeyAdapter: reconnect config, reconnectAttempts, state, timer
  mrWait         \* history: the reconnect timer handleReconnect set last

rcVars == <<cm, cmWait, mr, mrWait>>

VARIABLES
  ac,            \* AgentConnector: which of its handles are set (FALSE is null)
  acPc,          \* where connect() or disconnect() of the connector is waiting
  acOs,          \* the agent subprocess as the operating system has it
  acNow,         \* the clock in milliseconds
  acLog          \* history: how connect() ended, the last disconnect() call

acVars == <<ac, acPc, acOs, acNow, acLog>>

VARIABLES
  sd,            \* ShutdownHandler: context, isShuttingDown, shutdownPromise, position
  sdCalls,       \* each shutdown() call: not made, waiting, completed
  sdProc,        \* the process: alive, Deno.exit calls, whether Deno.exit is replaced
  sdAdapters,    \* each platform adapter: connected, disconnecting, disconnected
  sdLog          \* history: shutdown sequences run, orchestrations started

sdVars == <<sd, sdCalls, sdProc, sdAdapters, sdLog>>

VARIABLES
  mcpEnv,        \* MCP server: MCP_PLATFORM, MCP_USER_ID, MCP_CHANNEL_ID
  mcpReplySent,  \* replySentMap of the ReplyHandler of the MCP server
  mcpResults     \* history: the results of the send_reply tool calls

mcpVars == <<mcpEnv, mcpReplySent, mcpResults>>

VARIABLES
  ctxIn,         \* the assembled context and the configured token limit
  ctxOut         \* what formatContext returned

ctxVars == <<ctxIn, ctxOut>>

memVars == <<memIsDm, memFiles, memClock, memCalls, memNextId, memOp, memSaved, memPatched>>

auxVars == <<memVars, ctxVars, srvVars, inVars, rcVars, acVars, sdVars, mcpVars>>

baseVars == <<gwVars, coreVars, fsVars, permVars, mkVars, replySentMap>>

vars == <<gwVars, coreVars, fsVars, permVars, mkVars, auxVars, replySentMap>>

(***************************************************************************)
(* SessionRegistry                                                         *)
(***************************************************************************)
NewSession(key, timeoutMs, t) ==
  [key |-> key, startedAt |-> t, timeoutMs |-> timeoutMs, replySent |-> FALSE]

register(ss, id, key, timeoutMs, t) ==
  [i \in DOMAIN ss \cup {id} |->
      IF i = id THEN NewSession(key, timeoutMs, t) ELSE ss[i]]

\* faulty variant: the comparison allows one tick too many
isExpiredLate(session, t) == (t - session.startedAt) > session.timeoutMs + 1

isExpired(session, t) == (t - session.startedAt) > session.timeoutMs

Delete(ss, id) == [i \in DOMAIN ss \ {id} |-> ss[i]]

\* get(): the value returned
get(ss, id, t) ==
  IF id \in DOMAIN ss /\ ~isExpired(ss[id], t) THEN ss[id] ELSE Undefined

\* get(): the map it leaves behind (an expired record is deleted eagerly)
getSessions(ss, id, t) ==
  IF id \in DOMAIN ss /\ isExpired(ss[id], t) THEN Delete(ss, id) ELSE ss

\* faulty variant: reports success without looking at the flag
markReplySentAlways(ss, id) == id \in DOMAIN ss

\* markReplySent(): the value returned
markReplySent(ss, id) ==
  IF id \notin DOMAIN ss THEN FALSE
  ELSE IF ss[id].replySent THEN FALSE
  ELSE TRUE

\* faulty variant: flips the flag instead of setting it
markReplySentSessionsToggle(ss, id) ==
  IF id \notin DOMAIN ss THEN ss
  ELSE [ss EXCEPT ![id].replySent = ~@]

\* markReplySent(): the map it leaves behind
markReplySentSessions(ss, id) ==
  IF id \notin DOMAIN ss THEN ss
  ELSE IF ss[id].replySent THEN ss
  ELSE [ss EXCEPT ![id].replySent = TRUE]

hasReplySent(ss, id) ==
  IF id \in DOMAIN ss THEN ss[id].replySent ELSE FALSE

\* the setInterval callback of startCleanup()
cleanup(ss, t) ==
  [i \in {j \in DOMAIN ss : ~isExpired(ss[j], t)} |-> ss[i]]

(***************************************************************************)
(* ReplyHandler                                                            *)
(***************************************************************************)
hasReplySentInternal(map, key) == key \in map

handlerMarkReplySent(map, key) == map \cup {key}

\* faulty variant: the state of the previous interaction is kept
clearReplyStateKeeps(map, key) == map

clearReplyState(map, key) == map \ {key}

\* shapes of the parameters object, one per validation branch
ParamKinds == {"text", "nomessage", "blank", "badattachments"}

\* handleSendReply up to the adapter call: "call" or the error returned
handleSendReplyBegin(map, key, params) ==
  IF hasReplySentInternal(map, key)
    THEN "Reply can only be sent once per interaction"
  ELSE IF params = "nomessage" THEN "Missing or invalid 'message' parameter"
  ELSE IF params = "blank" THEN "Message cannot be empty"
  ELSE IF params = "badattachments"
    THEN "Invalid 'attachments' parameter. Must be an array"
  ELSE "call"

AdapterOutcomes == {"success", "failure", "throw"}

\* handleSendReply after the adapter call: the result's success flag
handleSendReplySuccess(outcome) == outcome = "success"

\* faulty variant: the state is marked whatever the adapter reported
handleSendReplyMapAlways(map, key, outcome) == handlerMarkReplySent(map, key)

\* handleSendReply after the adapter call: the map it leaves behind
handleSendReplyMap(map, key, outcome) ==
  IF outcome = "success" THEN handlerMarkReplySent(map, key) ELSE map

(***************************************************************************)
(* SkillRegistry (src/skills/registry.ts)                                  *)
(***************************************************************************)
RegisteredSkills ==
  {"memory-save", "memory-search", "memory-patch", "send-reply", "fetch-context"}

hasSkill(name) == name \in RegisteredSkills

(***************************************************************************)
(* SkillAPIServer                                                          *)
(***************************************************************************)
Methods == {"POST", "OPTIONS", "GET"}
\* the {name} of a matching path, or "" when the path does not match
PathSkills == {"send-reply", "memory-search", "does-not-exist", ""}
\* body.sessionId: absent, or any string; BadJson: the body does not parse
BodySids == {NoSid, UnknownSid} \cup SessionIds
Bodies == BodySids \cup {BadJson}

Resp(sid, skill, status, error, ran) ==
  [sid |-> sid, skill |-> skill, status |-> status, error |-> error, ran |-> ran]

NoResp == Resp(NoSid, "", 0, "", FALSE)

\* faulty variant: the single-reply check of the gateway is left out
gatewayCheckNo409(ss, method, skill, body, t) ==
  IF method = "OPTIONS" THEN 204
  ELSE IF method # "POST" THEN 405
  ELSE IF skill = "" THEN 404
  ELSE IF body = BadJson THEN 500
  ELSE IF body = NoSid THEN 400
  ELSE IF get(ss, body, t) = Undefined THEN 401
  ELSE IF ~hasSkill(skill) THEN 404
  ELSE 0

\* faulty variant: the skill name is looked up before the session
gatewayCheckSkillFirst(ss, method, skill, body, t) ==
  IF method = "OPTIONS" THEN 204
  ELSE IF method # "POST" THEN 405
  ELSE IF skill = "" THEN 404
  ELSE IF body = BadJson THEN 500
  ELSE IF body = NoSid THEN 400
  ELSE IF ~hasSkill(skill) THEN 404
  ELSE IF get(ss, body, t) = Undefined THEN 401
  ELSE IF skill = "send-reply" /\ get(ss, body, t).replySent THEN 409
  ELSE 0

\* faulty variant: the body is read before the path is matched
gatewayCheckBodyFirst(ss, method, skill, body, t) ==
  IF method = "OPTIONS" THEN 204
  ELSE IF method # "POST" THEN 405
  ELSE IF body = BadJson THEN 500
  ELSE IF body = NoSid THEN 400
  ELSE IF skill = "" THEN 404
  ELSE IF get(ss, body, t) = Undefined THEN 401
  ELSE IF ~hasSkill(skill) THEN 404
  ELSE IF skill = "send-reply" /\ get(ss, body, t).replySent THEN 409
  ELSE 0

\* handleRequest / handleSkillRequest up to the first skill execution:
\* the status answered at once, or 0 when the skill handler is entered
gatewayCheck(ss, method, skill, body, t) ==
  IF method = "OPTIONS" THEN 204
  ELSE IF method # "POST" THEN 405
  ELSE IF skill = "" THEN 404
  ELSE IF body = BadJson THEN 500
  ELSE IF body = NoSid THEN 400
  ELSE IF get(ss, body, t) = Undefined THEN 401
  ELSE IF ~hasSkill(skill) THEN 404
  ELSE IF skill = "send-reply" /\ get(ss, body, t).replySent THEN 409
  ELSE 0

gatewayError(status, skill) ==
  CASE status = 405 -> "Method not allowed"
    [] status = 404 /\ skill = "" -> "Not found"
    [] status = 404 /\ skill # "" -> "Unknown skill"
    [] status = 400 -> "Missing sessionId"
    [] status = 401 -> "Invalid or expired session"
    [] status = 409 -> "Reply already sent for this session"
    [] status = 500 -> "Unexpected token"
    [] OTHER -> ""

\* the registry is touched only once the body carried a sessionId
gatewayReachesGet(method, skill, body) ==
  method = "POST" /\ skill # "" /\ body \notin {BadJson, NoSid}

Respond(sid, skill, status, error, ran) ==
  /\ lastResp' = Resp(sid, skill, status, error, ran)
  /\ ok200' = IF status = 200 /\ skill = "send-reply" THEN ok200 \cup {sid} ELSE ok200
  /\ failed400' = IF status = 400 /\ skill = "send-reply" /\ ran
                     THEN [failed400 EXCEPT ![sid] = nreq]
                     ELSE failed400

GatewayReceive(method, skill, body, params) ==
  /\ nreq < MaxRequests
  \* parts of the request the handler never reads are left at one value
  /\ method # "POST" => skill = ""
  /\ skill = "" => body = NoSid
  /\ (gatewayCheck(sessions, method, skill, body, now) = 0 /\ skill = "send-reply")
        \/ params = "text"
  /\ nreq' = nreq + 1
  /\ LET status == gatewayCheck(sessions, method, skill, body, now)
         ss1 == IF gatewayReachesGet(method, skill, body)
                  THEN getSessions(sessions, body, now) ELSE sessions
         \* what the handler had read of the request when it answered
         sidOf == IF status \in {204, 405} \/ skill = "" THEN NoSid ELSE body
         skillOf == IF status \in {204, 405} THEN "" ELSE skill
     IN /\ sessions' = ss1
        /\ IF status # 0
             THEN /\ Respond(sidOf, skillOf, status, gatewayError(status, skill), FALSE)
                  /\ UNCHANGED inflight
           ELSE IF skill = "send-reply"
             THEN LET begin == handleSendReplyBegin(replySentMap, ss1[body].key, params)
                  IN inflight' = [i \in DOMAIN inflight \cup {nreq + 1} |->
                        IF i = nreq + 1
                          THEN [sid |-> body, skill |-> skill, key |-> ss1[body].key,
                                pc |-> IF begin = "call" THEN "adapter" ELSE "result",
                                success |-> FALSE,
                                error |-> IF begin = "call" THEN "" ELSE begin]
                          ELSE inflight[i]]
                     /\ Respond(body, skill, 0, "", TRUE)
           ELSE /\ inflight' = [i \in DOMAIN inflight \cup {nreq + 1} |->
                        IF i = nreq + 1
                          THEN [sid |-> body, skill |-> skill, key |-> ss1[body].key,
                                pc |-> "skill", success |-> FALSE, error |-> ""]
                          ELSE inflight[i]]
                /\ Respond(body, skill, 0, "", TRUE)
  /\ evicted' = evicted \cup (DOMAIN sessions \ DOMAIN sessions')
  /\ UNCHANGED <<auxVars, coreVars, fsVars, permVars, mkVars, now, nextId, replySentMap, sentCount, markTrue, markBy>>

\* platformAdapter.sendReply settles and handleSendReply runs to its return
AdapterReturns(r, outcome) ==
  /\ r \in DOMAIN inflight
  /\ inflight[r].pc = "adapter"
  /\ replySentMap' = handleSendReplyMap(replySentMap, inflight[r].key, outcome)
  /\ inflight' = [inflight EXCEPT ![r].pc = "result",
                                  ![r].success = handleSendReplySuccess(outcome),
                                  ![r].error = IF outcome = "success" THEN ""
                                               ELSE "Failed to send reply"]
  /\ sentCount' = IF outcome = "success"
                    THEN [sentCount EXCEPT ![inflight[r].sid] = @ + 1]
                    ELSE sentCount
  /\ UNCHANGED <<auxVars, coreVars, fsVars, permVars, mkVars, now, sessions, nextId, nreq, lastResp, ok200, failed400,
                 markTrue, markBy, evicted>>

\* a skill other than send-reply settles (its own state is not part of this model)
SkillReturns(r, ok) ==
  /\ r \in DOMAIN inflight
  /\ inflight[r].pc = "skill"
  /\ inflight' = [inflight EXCEPT ![r].pc = "result", ![r].success = ok,
                                  ![r].error = IF ok THEN "" ELSE "skill failed"]
  /\ UNCHANGED <<auxVars, coreVars, fsVars, permVars, mkVars, now, sessions, nextId, replySentMap, nreq, lastResp,
                 sentCount, ok200, failed400, markTrue, markBy, evicted>>

RecordMark(id, by) ==
  /\ markTrue' = IF markReplySent(sessions, id)
                   THEN [markTrue EXCEPT ![id] = IF @ < 2 THEN @ + 1 ELSE @]
                   ELSE markTrue
  /\ markBy' = IF id \in DOMAIN sessions
                   THEN [markBy EXCEPT ![id] = @ \cup {by}] ELSE markBy

\* handleSkillRequest after `await executeSkill(...)`
GatewayResume(r) ==
  /\ r \in DOMAIN inflight
  /\ inflight[r].pc = "result"
  /\ LET q == inflight[r]
         marks == q.skill = "send-reply" /\ q.success
     IN /\ IF marks
             THEN /\ sessions' = markReplySentSessions(sessions, q.sid)
                  /\ RecordMark(q.sid, "gateway")
             ELSE UNCHANGED <<sessions, markTrue, markBy>>
        /\ Respond(q.sid, q.skill, IF q.success THEN 200 ELSE 400, q.error, TRUE)
  /\ inflight' = [i \in DOMAIN inflight \ {r} |-> inflight[i]]
  /\ UNCHANGED <<auxVars, coreVars, fsVars, permVars, mkVars, now, nextId, replySentMap, nreq, sentCount, evicted>>

(***************************************************************************)
(* Other callers of the registry, and the clock                            *)
(***************************************************************************)
Register(key, timeoutMs) ==
  /\ nextId < MaxSessions
  /\ nextId' = nextId + 1
  /\ sessions' = register(sessions, nextId + 1, key, timeoutMs, now)
  /\ UNCHANGED <<auxVars, coreVars, fsVars, permVars, mkVars, now, replySentMap, inflight, nreq, lastResp,
                 sentCount, ok200, failed400, markTrue, markBy, evicted>>

\* a caller other than the gateway invokes registry.markReplySent(id)
DirectMark(id) ==
  /\ sessions' = markReplySentSessions(sessions, id)
  /\ RecordMark(id, "direct")
  /\ UNCHANGED <<auxVars, coreVars, fsVars, permVars, mkVars, now, nextId, replySentMap, inflight, nreq, lastResp,
                 sentCount, ok200, failed400, evicted>>

Sweep ==
  /\ cleanup(sessions, now) # sessions
  /\ sessions' = cleanup(sessions, now)
  /\ UNCHANGED <<auxVars, coreVars, fsVars, permVars, mkVars, now, nextId, replySentMap, inflight, nreq, lastResp,
                 sentCount, ok200, failed400, markTrue, markBy, evicted>>

Tick ==
  /\ now < MaxTime
  /\ now' = now + 1
  /\ UNCHANGED <<auxVars, coreVars, fsVars, permVars, mkVars, sessions, nextId, replySentMap, inflight, nreq,
                 lastResp, sentCount, ok200, failed400, markTrue, markBy, evicted>>

InitGW ==
  /\ now = 0
  /\ sessions = <<>>
  /\ nextId = 0
  /\ inflight = <<>>
  /\ nreq = 0
  /\ lastResp = NoResp
  /\ sentCount = [s \in SessionIds |-> 0]
  /\ ok200 = {}
  /\ failed400 = [s \in SessionIds |-> 0]
  /\ markTrue = [s \in SessionIds |-> 0]
  /\ markBy = [s \in SessionIds |-> {}]
  /\ evicted = {}

NextGW ==
  \/ \E k \in WsKeys, t \in Timeouts : Register(k, t)
  \/ \E m \in Methods, s \in PathSkills, b \in Bodies, p \in ParamKinds :
        GatewayReceive(m, s, b, p)
  \/ \E r \in 1..MaxRequests, o \in AdapterOutcomes : AdapterReturns(r, o)
  \/ \E r \in 1..MaxRequests, ok \in BOOLEAN : SkillReturns(r, ok)
  \/ \E r \in 1..MaxRequests : GatewayResume(r)
  \/ \E id \in SessionIds : DirectMark(id)
  \/ Sweep
  \/ Tick

(***************************************************************************)
(* MessageHandler, SessionOrchestrator, ReplyDispatcher, AgentCore         *)
(***************************************************************************)
MaxTasks == 2
MaxCalls == 2

TaskIds == 1..MaxTasks
MessageIds == {"m1", "m2"}
\* message ids and workspace keys are named in order of first appearance:
\* an event repeats one already seen or brings the next new one
MsgOrder == <<"m1", "m2">>
KeyOrder == <<"discord/1/10", "discord/2/20">>
Fresh(order, seen) ==
  {order[i] : i \in {j \in 1..Len(order) : \A k \in 1..(j - 1) : order[k] \in seen}}
Platform == "discord"

\* `${event.platform}:${event.messageId}`
eventKey(platform, messageId) == <<platform, messageId>>

\* messages are sequences of words; includes() looks for a run of words
Includes(hay, needle) ==
  \E i \in 1..(Len(hay) - Len(needle) + 1) :
     SubSeq(hay, i, i + Len(needle) - 1) = needle

ErrDuplicate == <<"Event", "already", "being", "processed">>
ErrNoReply == <<"Agent", "did", "not", "generate", "a", "reply">>
ErrCancelled == <<"Session", "was", "cancelled">>
ErrUnexpected == <<"Unexpected", "stop", "reason:", "max_tokens">>
NoError == <<>>

\* messages of the exceptions thrown by the workspace, the context
\* assembler and the agent connection
ExceptionMessages ==
  {<<"Not", "connected", "to", "agent">>, <<"Request", "was", "cancelled">>}

StopReasons == {"end_turn", "cancelled", "max_tokens"}

Response(success, replySent, error) ==
  [success |-> success, replySent |-> replySent, error |-> error]

NoResponse == Response(FALSE, FALSE, NoError)

\* a handler that admits every event
isDuplicateNever(active, key) == FALSE

\* MessageHandler.handleEvent: the duplicate check
isDuplicate(active, key) == key \in active

\* SessionOrchestrator.processMessage: the result once prompt() has returned
promptResult(replySent, stopReason) ==
  IF replySent THEN Response(TRUE, TRUE, NoError)
  ELSE IF stopReason = "end_turn" THEN Response(FALSE, FALSE, ErrNoReply)
  ELSE IF stopReason = "cancelled" THEN Response(FALSE, FALSE, ErrCancelled)
  ELSE Response(FALSE, FALSE, ErrUnexpected)

\* SessionOrchestrator.processMessage: the result of the catch block
exceptionResult(message) == Response(FALSE, FALSE, message)

\* faulty variant: a dispatcher that stays silent on duplicates only
skipErrorMessageDuplicateOnly(error) ==
  Includes(error, <<"already", "being", "processed">>)

\* a dispatcher that stays silent on cancellation only
skipErrorMessageCancelledOnly(error) == Includes(error, <<"cancelled">>)

\* ReplyDispatcher.dispatchErrorIfNeeded: skipErrorMessage
skipErrorMessage(error) ==
  \/ Includes(error, <<"already", "being", "processed">>)
  \/ Includes(error, <<"cancelled">>)

\* AgentCore.handleEvent with dispatchErrorIfNeeded: is the notice sent?
dispatchesError(response) ==
  /\ ~response.success /\ ~response.replySent
  /\ ~(response.success \/ response.replySent)
  /\ ~skipErrorMessage(response.error)

Running == {"workspace", "connect", "session", "model", "prompt", "disconnect"}

\* seq is history: when the event arrived, every earlier orchestration on
\* its workspace and channel was over
IdleTask ==
  [pc |-> "idle", msg |-> "", key |-> "", resp |-> NoResponse,
   connected |-> FALSE, rejected |-> FALSE, stop |-> "", seq |-> FALSE]

\* the orchestrations before event t on this workspace and channel have
\* returned and none of their send-reply calls is still at the adapter
Over(t, key) ==
  \A u \in 1..(t - 1) :
     tasks[u].key = key =>
        /\ tasks[u].pc \in {"responded", "dispatch", "done"}
        /\ \A c \in DOMAIN calls : calls[c].task # u

\* faulty variant: the agent process is left running
disconnectLeaks(task) == task

\* AgentConnector.disconnect: the process is killed and the fields are reset
disconnect(task) == [task EXCEPT !.connected = FALSE]

\* faulty variant: an exception of the adapter leaves dispatchErrorIfNeeded
afterDispatchUncaught(outcome) == IF outcome = "throw" THEN "threw" ELSE "done"

\* dispatchErrorIfNeeded returns true or false, also when sendReply throws;
\* AgentCore.handleEvent then returns
afterDispatch(outcome) == "done"

\* an event is delivered: AgentCore.handleEvent -> MessageHandler.handleEvent
Arrive(t, msg, key) ==
  /\ t = ntasks + 1
  /\ t \in TaskIds
  /\ msg \in Fresh(MsgOrder, {tasks[u].msg : u \in 1..ntasks})
  /\ key \in Fresh(KeyOrder, {tasks[u].key : u \in 1..ntasks})
  /\ ntasks' = t
  /\ IF isDuplicate(activeEvents, eventKey(Platform, msg))
       THEN /\ tasks' = [tasks EXCEPT ![t] =
                 [IdleTask EXCEPT !.pc = "responded", !.msg = msg, !.key = key,
                                  !.resp = Response(FALSE, FALSE, ErrDuplicate),
                                  !.rejected = TRUE, !.seq = Over(t, key)]]
            /\ UNCHANGED activeEvents
       ELSE /\ tasks' = [tasks EXCEPT ![t] =
                 [IdleTask EXCEPT !.pc = "workspace", !.msg = msg, !.key = key,
                                  !.seq = Over(t, key)]]
            /\ activeEvents' = activeEvents \cup {eventKey(Platform, msg)}
  /\ UNCHANGED <<auxVars, gwVars, fsVars, permVars, mkVars, replySentMap, calls, ncalls, replies, notices>>

\* processMessage fails outside the inner try: no connector to disconnect
FailEarly(t, message) ==
  /\ tasks' = [tasks EXCEPT ![t].pc = "responded",
                            ![t].resp = exceptionResult(message)]
  /\ activeEvents' = activeEvents \ {eventKey(Platform, tasks[t].msg)}

\* getOrCreateWorkspace and assembleContext settle
WorkspaceReady(t, ok, message) ==
  /\ tasks[t].pc = "workspace"
  /\ IF ok
       THEN /\ tasks' = [tasks EXCEPT ![t].pc = "connect"]
            /\ UNCHANGED activeEvents
       ELSE FailEarly(t, message)
  /\ UNCHANGED <<auxVars, gwVars, fsVars, permVars, mkVars, replySentMap, ntasks, calls, ncalls, replies, notices>>

\* connector.connect() settles
Connected(t, ok, message) ==
  /\ tasks[t].pc = "connect"
  /\ tasks' = IF ok
       THEN [tasks EXCEPT ![t].pc = "session", ![t].connected = TRUE]
       ELSE [tasks EXCEPT ![t].pc = "disconnect",
                          ![t].resp = exceptionResult(message)]
  /\ UNCHANGED <<auxVars, gwVars, fsVars, permVars, mkVars, replySentMap, ntasks, activeEvents, calls, ncalls,
                 replies, notices>>

\* connector.createSession() settles
SessionCreated(t, ok, message) ==
  /\ tasks[t].pc = "session"
  /\ tasks' = IF ok
       THEN [tasks EXCEPT ![t].pc = "model"]
       ELSE [tasks EXCEPT ![t].pc = "disconnect",
                          ![t].resp = exceptionResult(message)]
  /\ UNCHANGED <<auxVars, gwVars, fsVars, permVars, mkVars, replySentMap, ntasks, activeEvents, calls, ncalls,
                 replies, notices>>

\* connector.setSessionModel() settles; the reply state is cleared and the
\* prompt is sent
ModelSet(t, ok, message) ==
  /\ tasks[t].pc = "model"
  /\ IF ok
       THEN /\ tasks' = [tasks EXCEPT ![t].pc = "prompt"]
            /\ replySentMap' = clearReplyState(replySentMap, tasks[t].key)
       ELSE /\ tasks' = [tasks EXCEPT ![t].pc = "disconnect",
                                      ![t].resp = exceptionResult(message)]
            /\ UNCHANGED replySentMap
  /\ UNCHANGED <<auxVars, gwVars, fsVars, permVars, mkVars, ntasks, activeEvents, calls, ncalls, replies, notices>>

\* the agent of event t invokes send-reply while its prompt is running
AgentSendReply(t, params) ==
  /\ tasks[t].pc = "prompt"
  /\ ncalls < MaxCalls
  /\ ncalls' = ncalls + 1
  /\ calls' = IF handleSendReplyBegin(replySentMap, tasks[t].key, params) = "call"
       THEN [c \in DOMAIN calls \cup {ncalls + 1} |->
               IF c = ncalls + 1 THEN [task |-> t, key |-> tasks[t].key]
               ELSE calls[c]]
       ELSE calls
  /\ UNCHANGED <<auxVars, gwVars, fsVars, permVars, mkVars, replySentMap, tasks, ntasks, activeEvents, replies, notices>>

\* platformAdapter.sendReply settles and handleSendReply runs to its return
ReplyAdapterReturns(c, outcome) ==
  /\ c \in DOMAIN calls
  /\ replySentMap' = handleSendReplyMap(replySentMap, calls[c].key, outcome)
  /\ replies' = IF outcome = "success"
                  THEN [replies EXCEPT ![calls[c].task] = @ + 1] ELSE replies
  /\ calls' = [d \in DOMAIN calls \ {c} |-> calls[d]]
  /\ UNCHANGED <<auxVars, gwVars, fsVars, permVars, mkVars, tasks, ntasks, activeEvents, ncalls, notices>>

\* connector.prompt() returns a stop reason
PromptReturns(t, stopReason) ==
  /\ tasks[t].pc = "prompt"
  /\ tasks' = [tasks EXCEPT ![t].pc = "disconnect", ![t].stop = stopReason,
        ![t].resp = promptResult(hasReplySentInternal(replySentMap, tasks[t].key),
                                 stopReason)]
  /\ UNCHANGED <<auxVars, gwVars, fsVars, permVars, mkVars, replySentMap, ntasks, activeEvents, calls, ncalls,
                 replies, notices>>

\* connector.prompt() throws
PromptThrows(t, message) ==
  /\ tasks[t].pc = "prompt"
  /\ tasks' = [tasks EXCEPT ![t].pc = "disconnect",
                            ![t].resp = exceptionResult(message)]
  /\ UNCHANGED <<auxVars, gwVars, fsVars, permVars, mkVars, replySentMap, ntasks, activeEvents, calls, ncalls,
                 replies, notices>>

\* connector.disconnect() of the finally block settles; processMessage and
\* MessageHandler.handleEvent return
Disconnected(t) ==
  /\ tasks[t].pc = "disconnect"
  /\ tasks' = [tasks EXCEPT ![t] = [disconnect(@) EXCEPT !.pc = "responded"]]
  /\ activeEvents' = activeEvents \ {eventKey(Platform, tasks[t].msg)}
  /\ UNCHANGED <<auxVars, gwVars, fsVars, permVars, mkVars, replySentMap, ntasks, calls, ncalls, replies, notices>>

\* AgentCore.handleEvent after `await messageHandler.handleEvent(...)`
Dispatch(t) ==
  /\ tasks[t].pc = "responded"
  /\ tasks' = [tasks EXCEPT ![t].pc =
        IF dispatchesError(tasks[t].resp) THEN "dispatch" ELSE "done"]
  /\ UNCHANGED <<auxVars, gwVars, fsVars, permVars, mkVars, replySentMap, ntasks, activeEvents, calls, ncalls,
                 replies, notices>>

\* platformAdapter.sendReply of dispatchErrorIfNeeded settles
NoticeReturns(t, outcome) ==
  /\ tasks[t].pc = "dispatch"
  /\ tasks' = [tasks EXCEPT ![t].pc = afterDispatch(outcome)]
  /\ notices' = IF outcome = "success"
                  THEN [notices EXCEPT ![t] = @ + 1] ELSE notices
  /\ UNCHANGED <<auxVars, gwVars, fsVars, permVars, mkVars, replySentMap, ntasks, activeEvents, calls, ncalls, replies>>

InitCore ==
  /\ tasks = [t \in TaskIds |-> IdleTask]
  /\ ntasks = 0
  /\ activeEvents = {}
  /\ calls = <<>>
  /\ ncalls = 0
  /\ replies = [t \in TaskIds |-> 0]
  /\ notices = [t \in TaskIds |-> 0]

NextCore ==
  \/ \E t \in TaskIds, m \in MessageIds, k \in WsKeys : Arrive(t, m, k)
  \/ \E t \in TaskIds, ok \in BOOLEAN, e \in ExceptionMessages : WorkspaceReady(t, ok, e)
  \/ \E t \in TaskIds, ok \in BOOLEAN, e \in ExceptionMessages : Connected(t, ok, e)
  \/ \E t \in TaskIds, ok \in BOOLEAN, e \in ExceptionMessages : SessionCreated(t, ok, e)
  \/ \E t \in TaskIds, ok \in BOOLEAN, e \in ExceptionMessages : ModelSet(t, ok, e)
  \/ \E t \in TaskIds, p \in ParamKinds : AgentSendReply(t, p)
  \/ \E c \in 1..MaxCalls, o \in AdapterOutcomes : ReplyAdapterReturns(c, o)
  \/ \E t \in TaskIds, r \in StopReasons : PromptReturns(t, r)
  \/ \E t \in TaskIds, e \in ExceptionMessages : PromptThrows(t, e)
  \/ \E t \in TaskIds : Disconnected(t)
  \/ \E t \in TaskIds : Dispatch(t)
  \/ \E t \in TaskIds, o \in AdapterOutcomes : NoticeReturns(t, o)

(***************************************************************************)
(* ChatbotClient.readTextFile / writeTextFile                              *)
(***************************************************************************)
MaxPathLen == 5

\* paths are strings over a small alphabet, kept as sequences of characters
Chars == {"/", ".", "w", "x"}

Str(n) == UNION {[1..k -> Chars] : k \in 1..n}

\* config.workingDir, and the directory relative paths are resolved against
WorkingDir == <<"/", "w">>
Cwd == <<"/">>

\* the one link the file system may hold: /w/x -> /x
PossibleLinks == {[from |-> << <<"w">>, <<"x">> >>, to |-> << <<"x">> >>]}

RECURSIVE Segments(_, _, _)
\* the names between the separators of p, read from position i on
Segments(p, i, cur) ==
  IF i > Len(p) THEN (IF cur = <<>> THEN <<>> ELSE <<cur>>)
  ELSE IF p[i] = "/"
    THEN (IF cur = <<>> THEN <<>> ELSE <<cur>>) \o Segments(p, i + 1, <<>>)
  ELSE Segments(p, i + 1, Append(cur, p[i]))

RECURSIVE NormalizeSegments(_, _)
\* "." is dropped and ".." removes the name before it
NormalizeSegments(segs, acc) ==
  IF segs = <<>> THEN acc
  ELSE LET h == Head(segs)
       IN IF h = <<".">> THEN NormalizeSegments(Tail(segs), acc)
          ELSE IF h = <<".", ".">>
            THEN NormalizeSegments(Tail(segs),
                   IF acc = <<>> THEN acc ELSE SubSeq(acc, 1, Len(acc) - 1))
          ELSE NormalizeSegments(Tail(segs), Append(acc, h))

RECURSIVE JoinSegments(_)
JoinSegments(segs) ==
  IF segs = <<>> THEN <<>>
  ELSE <<"/">> \o Head(segs) \o JoinSegments(Tail(segs))

isAbsolute(p) == Len(p) > 0 /\ p[1] = "/"

\* the names of resolve(p)
resolveSegments(p) ==
  IF isAbsolute(p) THEN NormalizeSegments(Segments(p, 1, <<>>), <<>>)
  ELSE NormalizeSegments(Segments(Cwd, 1, <<>>) \o Segments(p, 1, <<>>), <<>>)

\* resolve() of @std/path: absolute, normalized, links not followed
resolve(p) ==
  IF resolveSegments(p) = <<>> THEN <<"/">> ELSE JoinSegments(resolveSegments(p))

\* String.prototype.startsWith
startsWith(str, prefix) ==
  Len(prefix) <= Len(str) /\ SubSeq(str, 1, Len(prefix)) = prefix

isPathWithinWorkingDir(path) ==
  startsWith(resolve(path), resolve(WorkingDir))

\* where the operating system ends up when it opens the names segs
RealPath(segs, links) ==
  IF \E l \in links : Len(l.from) <= Len(segs) /\ SubSeq(segs, 1, Len(l.from)) = l.from
    THEN LET l == CHOOSE m \in links :
                    Len(m.from) <= Len(segs) /\ SubSeq(segs, 1, Len(m.from)) = m.from
         IN l.to \o SubSeq(segs, Len(l.from) + 1, Len(segs))
    ELSE segs

NoOp == [kind |-> "none", result |-> "none", target |-> <<>>]

\* readTextFile / writeTextFile: access denied, or Deno opens the file
fileRequest(kind, path, links) ==
  IF ~isPathWithinWorkingDir(path)
    THEN [kind |-> kind, result |-> "Access denied: path outside working directory",
          target |-> <<>>]
    ELSE [kind |-> kind, result |-> "performed",
          target |-> RealPath(resolveSegments(path), links)]

ReadTextFile ==
  /\ fsOp = NoOp
  /\ fsPath # <<>>
  /\ fsOp' = fileRequest("read", fsPath, fsLinks)
  /\ UNCHANGED <<auxVars, gwVars, coreVars, permVars, mkVars, replySentMap, fsPath, fsLinks>>

WriteTextFile ==
  /\ fsOp = NoOp
  /\ fsPath # <<>>
  /\ fsOp' = fileRequest("write", fsPath, fsLinks)
  /\ UNCHANGED <<auxVars, gwVars, coreVars, permVars, mkVars, replySentMap, fsPath, fsLinks>>

\* no file request is under way
IdleFS ==
  /\ fsPath = <<>>
  /\ fsLinks = {}
  /\ fsOp = NoOp

InitFS ==
  /\ fsPath \in Str(MaxPathLen)
  /\ fsLinks \in SUBSET PossibleLinks
  /\ fsOp = NoOp

NextFS == ReadTextFile \/ WriteTextFile

(***************************************************************************)
(* ChatbotClient.requestPermission                                         *)
(***************************************************************************)
MaxOptions == 2

OptionKinds == {"allow_once", "allow_always", "reject_once", "reject_always"}

\* params.options: the kinds of the options, in the order offered
OptionLists == UNION {[1..k -> OptionKinds] : k \in 0..MaxOptions}

\* an optional field: present with a value, or absent
Some(v) == [present |-> TRUE, value |-> v]
None == [present |-> FALSE, value |-> <<>>]

\* an absent string
Absent == "absent"

\* "/home/deno/.copilot/skills", and paths under it, beside it and elsewhere
SkillsPath == <<"/", "x">>
LocationPaths == {<<"/", "x", "/", "w">>, <<"/", "x", "w">>, <<"/", "w">>}
LocationLists ==
  {None} \cup {Some(<<>>)} \cup {Some(<<l>>) : l \in LocationPaths}
    \cup {Some(<<l, m>>) : l \in {<<"/", "w">>}, m \in LocationPaths}

\* shell commands, as sequences of the pieces includes() looks for
SkillCommand == <<"deno", "run", "skills/", "send-reply/", "skill.ts">>
OtherCommand == <<"rm", "-rf", "/">>
Commands == {SkillCommand, OtherCommand}
CommandLists ==
  {None} \cup {Some(l) : l \in {<<>>, <<SkillCommand>>, <<OtherCommand>>,
                                <<SkillCommand, OtherCommand>>,
                                <<SkillCommand, SkillCommand>>}}

\* toolCall.rawInput
RawInputs ==
  [present : BOOLEAN, command : {None} \cup {Some(c) : c \in Commands},
   commands : CommandLists, skill : {Absent, "send-reply", "does-not-exist"}]

ToolKinds == {"read", "execute", "other"}
Titles == {"send-reply", "does-not-exist"}

\* the tool calls an agent may ask permission for; fields the handler does
\* not read for a kind are left at one value
ToolCalls ==
  {tc \in [kind : ToolKinds, locations : LocationLists, rawInput : RawInputs,
           title : Titles] :
      /\ tc.kind # "read" => tc.locations = None
      /\ tc.kind # "execute" => (tc.rawInput.command = None /\ tc.rawInput.commands = None)
      /\ ~tc.rawInput.present =>
            /\ tc.rawInput.command = None /\ tc.rawInput.commands = None
            /\ tc.rawInput.skill = Absent}

\* locations.some((loc) => loc.path?.startsWith(skillsPath))
isReadingSkills(toolCall) ==
  /\ toolCall.kind = "read"
  /\ toolCall.locations.present
  /\ \E i \in 1..Len(toolCall.locations.value) :
        startsWith(toolCall.locations.value[i], SkillsPath)

\* rawInput?.commands ?? (rawInput?.command ? [rawInput.command] : [])
commandsOf(rawInput) ==
  IF ~rawInput.present THEN <<>>
  ELSE IF rawInput.commands.present THEN rawInput.commands.value
  ELSE IF rawInput.command.present THEN <<rawInput.command.value>>
  ELSE <<>>

isSkillCommand(toolCall) ==
  /\ toolCall.kind = "execute"
  /\ LET commands == commandsOf(toolCall.rawInput)
     IN /\ Len(commands) > 0
        /\ \A i \in 1..Len(commands) :
              Includes(commands[i], <<"skills/">>) /\ Includes(commands[i], <<"skill.ts">>)

\* rawInput?.skill ?? toolCall.title ?? ""
extractSkillName(toolCall) ==
  IF toolCall.rawInput.skill # Absent THEN toolCall.rawInput.skill ELSE toolCall.title

skillNameOf(toolCall) ==
  IF toolCall.rawInput.present THEN extractSkillName(toolCall) ELSE ""

isRegisteredSkillCall(toolCall) ==
  skillNameOf(toolCall) # "" /\ hasSkill(skillNameOf(toolCall))

\* the three grounds on which the request is approved
autoApproves(toolCall) ==
  isReadingSkills(toolCall) \/ isSkillCommand(toolCall) \/ isRegisteredSkillCall(toolCall)

\* options.find((o) => o.kind === kind) ?? options[0], as an index; 0 when
\* the list is empty
findOption(options, kind) ==
  IF \E i \in 1..Len(options) : options[i] = kind
    THEN CHOOSE i \in 1..Len(options) :
            options[i] = kind /\ \A j \in 1..(i - 1) : options[j] # kind
  ELSE IF Len(options) > 0 THEN 1
  ELSE 0

NoAnswer == [outcome |-> "none", optionId |-> 0]

NoRequest ==
  [toolCall |-> [kind |-> "none", locations |-> None,
                 rawInput |-> [present |-> FALSE, command |-> None, commands |-> None,
                               skill |-> Absent],
                 title |-> ""],
   options |-> <<>>]

\* the response; reading optionId of a missing option throws
answer(options, index) ==
  IF index = 0 THEN [outcome |-> "TypeError", optionId |-> 0]
  ELSE [outcome |-> "selected", optionId |-> index]

requestPermission(toolCall, options) ==
  IF autoApproves(toolCall)
    THEN answer(options, findOption(options, "allow_once"))
    ELSE answer(options, findOption(options, "reject_once"))

RequestPermission ==
  /\ permReq # NoRequest
  /\ permRes = NoAnswer
  /\ permRes' = requestPermission(permReq.toolCall, permReq.options)
  /\ UNCHANGED <<auxVars, gwVars, coreVars, fsVars, mkVars, replySentMap, permReq>>

\* no permission request is under way
IdlePerm ==
  /\ permReq = NoRequest
  /\ permRes = NoAnswer

InitPerm ==
  /\ permReq \in [toolCall : ToolCalls, options : OptionLists]
  /\ permRes = NoAnswer

NextPerm == RequestPermission

(***************************************************************************)
(* MisskeyAdapter.sendReply and buildReplyParams                           *)
(***************************************************************************)
MaxPosts == 2

Visibilities == {"public", "home", "followers", "specified"}
UserIds == {"u1", "u2"}
NoteId == "n1"

\* the two callers of platformAdapter.sendReply
Callers == {"ReplyHandler", "ReplyDispatcher"}

\* the options argument each caller passes: the reply handler passes none,
\* the dispatcher passes { replyToMessageId }
replyOptions(caller) ==
  IF caller = "ReplyDispatcher" THEN [replyToMessageId |-> NoteId]
  ELSE [replyToMessageId |-> Absent]

\* content.length > maxMessageLength ? content.slice(...) + "..." : content
ContentKinds == {"fits", "too long"}
truncatedContent(content) == IF content = "too long" THEN "cut..." ELSE "fits"

buildReplyParams(originalNote) ==
  IF originalNote.visibility = "specified"
    THEN [visibility |-> "specified", visibleUserIds |-> Some(<<originalNote.userId>>)]
    ELSE [visibility |-> originalNote.visibility, visibleUserIds |-> None]

\* params before the original note is looked at
baseParams(content, options) ==
  [text |-> truncatedContent(content), replyId |-> options.replyToMessageId,
   visibility |-> Absent, visibleUserIds |-> None]

\* Object.assign(params, replyParams)
assignReplyParams(params, replyParams) ==
  [params EXCEPT !.visibility = replyParams.visibility,
                 !.visibleUserIds = replyParams.visibleUserIds]

NoCall == [pc |-> "idle", caller |-> "", params |-> baseParams("fits", replyOptions(""))]

\* sendReply is entered and runs to its first await
MisskeySendReply(caller, content) ==
  /\ mkCall.pc = "idle"
  /\ mkNote.userId # ""
  /\ Len(mkPosted) < MaxPosts
  /\ LET options == replyOptions(caller)
     IN mkCall' = [pc |-> IF options.replyToMessageId # Absent THEN "notes/show"
                          ELSE "notes/create",
                   caller |-> caller,
                   params |-> baseParams(content, options)]
  /\ UNCHANGED <<auxVars, gwVars, coreVars, fsVars, permVars, replySentMap, mkNote, mkPosted>>

\* notes/show answers with the original note, or fails
NotesShowReturns(ok) ==
  /\ mkCall.pc = "notes/show"
  /\ mkCall' = IF ok
                 THEN [mkCall EXCEPT !.pc = "notes/create",
                          !.params = assignReplyParams(@, buildReplyParams(mkNote))]
                 ELSE NoCall
  /\ UNCHANGED <<auxVars, gwVars, coreVars, fsVars, permVars, replySentMap, mkNote, mkPosted>>

\* notes/create answers, or fails
NotesCreateReturns(ok) ==
  /\ mkCall.pc = "notes/create"
  /\ mkPosted' = IF ok THEN Append(mkPosted, mkCall.params) ELSE mkPosted
  /\ mkCall' = NoCall
  /\ UNCHANGED <<auxVars, gwVars, coreVars, fsVars, permVars, replySentMap, mkNote>>

\* no Misskey reply is under way
IdleMisskey ==
  /\ mkNote = [visibility |-> "public", userId |-> ""]
  /\ mkCall = NoCall
  /\ mkPosted = <<>>

InitMisskey ==
  /\ mkNote \in [visibility : Visibilities, userId : UserIds]
  /\ mkCall = NoCall
  /\ mkPosted = <<>>

NextMisskey ==
  \/ \E c \in Callers, k \in ContentKinds : MisskeySendReply(c, k)
  \/ \E ok \in BOOLEAN : NotesShowReturns(ok)
  \/ \E ok \in BOOLEAN : NotesCreateReturns(ok)

(***************************************************************************)
(* Memory log (MemoryStore) and the memory skills (MemoryHandler)          *)
(***************************************************************************)
MaxMemCalls == 3

\* memory contents, as the words they consist of
Contents == {<<"likes", "hiking">>, <<"likes", "tea">>}
QueryTerms == {"likes", "hiking"}
MemFileNames == {"public", "private"}
MemIdOf(n) == <<"mem", n>>
UnknownMemId == <<"mem", 0>>
MemIds == {MemIdOf(n) : n \in 1..MaxMemCalls}

EmptyObj == [k \in {} |-> k]
Field(k, V) == {EmptyObj} \cup {k :> v : v \in V}
Has(obj, k) == k \in DOMAIN obj

JsBoolean(b) == [type |-> "boolean", bool |-> b]
JsString(w) == [type |-> "string", str |-> w]

\* requests of the agent: the well-formed ones, and one malformed request for
\* every check the handlers make
SaveParams ==
  { c @@ v @@ i : c \in {"content" :> x : x \in Contents},
                  v \in Field("visibility", {"private"}),
                  i \in Field("importance", {"high"}) }
    \cup { EmptyObj,
           "content" :> <<>>,
           ("content" :> <<"likes", "tea">>) @@ ("visibility" :> "secret"),
           ("content" :> <<"likes", "tea">>) @@ ("importance" :> "low"),
           "visibility" :> "private" }

PatchChanges ==
  { "enabled" :> JsBoolean(FALSE),
    "enabled" :> JsBoolean(TRUE),
    "visibility" :> "private",
    "visibility" :> "public",
    "importance" :> "high",
    ("enabled" :> JsBoolean(FALSE)) @@ ("visibility" :> "private") }

PatchParams ==
  { m @@ c : m \in {"memory_id" :> x : x \in {MemIdOf(1), UnknownMemId}},
             c \in PatchChanges }
    \cup { "enabled" :> JsBoolean(FALSE),
           ("memory_id" :> MemIdOf(1)) @@ ("enabled" :> JsString("yes")),
           ("memory_id" :> MemIdOf(1)) @@ ("visibility" :> "secret"),
           ("memory_id" :> MemIdOf(1)) @@ ("importance" :> "low"),
           "memory_id" :> MemIdOf(1) }

SearchParams ==
  { q @@ l : q \in Field("query", {{}, {"hiking"}}), l \in Field("limit", {0, 1}) }

MemoryEvent(id, ts, visibility, importance, content) ==
  [type |-> "memory", id |-> id, ts |-> ts, enabled |-> TRUE,
   visibility |-> visibility, importance |-> importance, content |-> content]

PatchEvent(target, ts, changes) ==
  [type |-> "patch", target_id |-> target, ts |-> ts, changes |-> changes]

NoFile == [exists |-> FALSE, lines |-> <<>>]

\* append one line, creating the file when it does not exist
appendLine(files, name, line) ==
  [files EXCEPT ![name] = [exists |-> TRUE, lines |-> Append(@.lines, line)]]

MemFailure(msg) == [success |-> FALSE, error |-> msg]
MemSuccess(data) == [success |-> TRUE, data |-> data]

\* the file that holds the memory event of an id, "" when none does
fileOf(files, isDm, id) ==
  LET holds(name) == \E k \in 1..Len(files[name].lines) :
                        /\ files[name].lines[k].type = "memory"
                        /\ files[name].lines[k].id = id
  IN IF holds("public") THEN "public"
     ELSE IF isDm /\ holds("private") THEN "private"
     ELSE ""

\* faulty variant: the DM precondition of private memories is not checked
inScopeAlways(visibility, isDm) == TRUE

\* private memories belong to DM workspaces only
inScope(visibility, isDm) == visibility # "private" \/ isDm

\* MemoryStore.add
add(files, isDm, id, ts, content, visibility, importance) ==
  IF ~inScope(visibility, isDm)
  THEN [ok |-> FALSE, files |-> files]
  ELSE [ok |-> TRUE,
        files |-> appendLine(files, visibility,
                             MemoryEvent(id, ts, visibility, importance, content))]

\* MemoryStore.patch: the patch goes to the file of its target; a patch whose
\* target is in no file is persisted in the public file
patch(files, isDm, target, ts, changes) ==
  LET name == fileOf(files, isDm, target)
  IN appendLine(files, IF name = "" THEN "public" ELSE name,
                PatchEvent(target, ts, changes))

\* stable insertion of a patch into a list ordered by ts
RECURSIVE insertByTs(_, _)
insertByTs(sorted, p) ==
  IF sorted = <<>> THEN <<p>>
  ELSE IF sorted[Len(sorted)].ts <= p.ts THEN Append(sorted, p)
  ELSE Append(insertByTs(SubSeq(sorted, 1, Len(sorted) - 1), p), sorted[Len(sorted)])

RECURSIVE sortByTs(_)
sortByTs(ps) ==
  IF ps = <<>> THEN <<>>
  ELSE insertByTs(sortByTs(SubSeq(ps, 1, Len(ps) - 1)), ps[Len(ps)])

\* faulty variant: an enabled change flips the flag instead of setting it
applyPatchToggle(mem, p) ==
  [mem EXCEPT
     !.enabled = IF Has(p.changes, "enabled") THEN ~@ ELSE @,
     !.visibility = IF Has(p.changes, "visibility") THEN p.changes.visibility ELSE @,
     !.importance = IF Has(p.changes, "importance") THEN p.changes.importance ELSE @]

\* one patch applied to a resolved memory: only the three metadata fields
applyPatch(mem, p) ==
  [mem EXCEPT
     !.enabled = IF Has(p.changes, "enabled") THEN p.changes.enabled ELSE @,
     !.visibility = IF Has(p.changes, "visibility") THEN p.changes.visibility ELSE @,
     !.importance = IF Has(p.changes, "importance") THEN p.changes.importance ELSE @]

RECURSIVE applyPatches(_, _)
applyPatches(mem, ps) ==
  IF ps = <<>> THEN mem ELSE applyPatches(applyPatch(mem, Head(ps)), Tail(ps))

\* the resolved memories of one file, in file order: each memory event with
\* the patches that follow it applied in ts order
resolveLines(lines) ==
  LET patchesOf(k) ==
        SelectSeq(SubSeq(lines, k + 1, Len(lines)),
                  LAMBDA e : e.type = "patch" /\ e.target_id = lines[k].id)
      at(k) == IF lines[k].type = "memory"
               THEN <<applyPatches(lines[k], sortByTs(patchesOf(k)))>>
               ELSE <<>>
      RECURSIVE upTo(_)
      upTo(k) == IF k = 0 THEN <<>> ELSE upTo(k - 1) \o at(k)
  IN upTo(Len(lines))

\* the resolved memories a caller of the workspace can see
resolved(files, isDm) ==
  resolveLines(files["public"].lines)
    \o (IF isDm THEN resolveLines(files["private"].lines) ELSE <<>>)

Words(content) == {content[k] : k \in 1..Len(content)}

\* MemoryStore.search: every term occurs in the content; newest first
search(files, isDm, terms, limit) ==
  LET hits == SelectSeq(sortByTs(resolved(files, isDm)),
                        LAMBDA m : m.enabled /\ terms \subseteq Words(m.content))
      newestFirst == [k \in 1..Len(hits) |-> hits[Len(hits) + 1 - k]]
  IN SubSeq(newestFirst, 1, IF limit < Len(hits) THEN limit ELSE Len(hits))

\* MemoryHandler.handleMemorySave: the result and the files it leaves
handleMemorySave(params, files, isDm, id, ts) ==
  LET visibility == IF Has(params, "visibility") THEN params.visibility ELSE "public"
      importance == IF Has(params, "importance") THEN params.importance ELSE "normal"
      added == add(files, isDm, id, ts, params.content, visibility, importance)
      keep(msg) == [result |-> MemFailure(msg), files |-> files]
  IN IF ~Has(params, "content") \/ params.content = <<>>
       THEN keep("Missing or invalid 'content' parameter")
     ELSE IF visibility \notin {"public", "private"}
       THEN keep("Invalid 'visibility' parameter. Must be 'public' or 'private'")
     ELSE IF importance \notin {"high", "normal"}
       THEN keep("Invalid 'importance' parameter. Must be 'high' or 'normal'")
     ELSE IF ~inScope(visibility, isDm)
       THEN keep("Private memories can only be saved in DM contexts")
     ELSE IF ~added.ok
       THEN keep("Failed to save memory")
     ELSE [result |-> MemSuccess([id |-> id]), files |-> added.files]

\* the changes a memory-patch request carries
changesOf(params) ==
  (IF Has(params, "enabled") THEN "enabled" :> params.enabled.bool ELSE EmptyObj)
    @@ (IF Has(params, "visibility") THEN "visibility" :> params.visibility ELSE EmptyObj)
    @@ (IF Has(params, "importance") THEN "importance" :> params.importance ELSE EmptyObj)

\* MemoryHandler.handleMemoryPatch: the result and the files it leaves
handleMemoryPatch(params, files, isDm, ts) ==
  LET keep(msg) == [result |-> MemFailure(msg), files |-> files]
  IN IF ~Has(params, "memory_id")
       THEN keep("Missing or invalid 'memory_id' parameter")
     ELSE IF Has(params, "enabled") /\ params.enabled.type # "boolean"
       THEN keep("Invalid 'enabled' parameter. Must be a boolean")
     ELSE IF Has(params, "visibility") /\ params.visibility \notin {"public", "private"}
       THEN keep("Invalid 'visibility' parameter. Must be 'public' or 'private'")
     ELSE IF Has(params, "importance") /\ params.importance \notin {"high", "normal"}
       THEN keep("Invalid 'importance' parameter. Must be 'high' or 'normal'")
     ELSE IF changesOf(params) = EmptyObj
       THEN keep("At least one of 'enabled', 'visibility', or 'importance' must be provided")
     ELSE [result |-> MemSuccess([target_id |-> params.memory_id]),
           files |-> patch(files, isDm, params.memory_id, ts, changesOf(params))]

\* MemoryHandler.handleMemorySearch
handleMemorySearch(params, files, isDm) ==
  LET limit == IF Has(params, "limit") THEN params.limit ELSE 10
  IN IF ~Has(params, "query")
       THEN MemFailure("Missing or invalid 'query' parameter")
     ELSE IF limit <= 0
       THEN MemFailure("Invalid 'limit' parameter. Must be a positive number")
     ELSE MemSuccess(search(files, isDm, params.query, limit))

\* the agent calls memory-save; dt is the time since the last event was written
MemorySave(params, dt) ==
  LET ts == memClock + dt
      id == MemIdOf(memNextId + 1)
      r == handleMemorySave(params, memFiles, memIsDm, id, ts)
  IN /\ memCalls < MaxMemCalls
     /\ memCalls' = memCalls + 1
     /\ memClock' = (IF r.result.success THEN ts ELSE memClock)
     /\ memFiles' = r.files
     /\ memNextId' = IF r.result.success THEN memNextId + 1 ELSE memNextId
     /\ memOp' = [op |-> "memory-save", params |-> params, result |-> r.result]
     /\ memSaved' = IF r.result.success
                    THEN Append(memSaved, [id |-> id, content |-> params.content])
                    ELSE memSaved
     /\ UNCHANGED <<baseVars, mcpVars, acVars, sdVars, ctxVars, srvVars, inVars, rcVars, memIsDm, memPatched>>

\* the agent calls memory-patch
MemoryPatch(params, dt) ==
  LET ts == memClock + dt
      r == handleMemoryPatch(params, memFiles, memIsDm, ts)
  IN /\ memCalls < MaxMemCalls
     /\ memCalls' = memCalls + 1
     /\ memClock' = (IF r.result.success THEN ts ELSE memClock)
     /\ memFiles' = r.files
     /\ memOp' = [op |-> "memory-patch", params |-> params, result |-> r.result]
     /\ memPatched' = IF r.result.success
                      THEN Append(memPatched, [target_id |-> params.memory_id,
                                               changes |-> changesOf(params),
                                               issued |-> memNextId])
                      ELSE memPatched
     /\ UNCHANGED <<baseVars, mcpVars, acVars, sdVars, ctxVars, srvVars, inVars, rcVars, memIsDm, memNextId, memSaved>>

\* the agent calls memory-search
MemorySearch(params) ==
  /\ memCalls < MaxMemCalls
  /\ memCalls' = memCalls + 1
  /\ memOp' = [op |-> "memory-search", params |-> params,
               result |-> handleMemorySearch(params, memFiles, memIsDm)]
  /\ UNCHANGED <<baseVars, mcpVars, acVars, sdVars, ctxVars, srvVars, inVars, rcVars, memIsDm, memFiles, memClock, memNextId, memSaved, memPatched>>

NoMemOp == [op |-> "", params |-> EmptyObj, result |-> MemFailure("")]

\* no memory skill has been called
IdleMemory ==
  /\ memIsDm = FALSE
  /\ memFiles = [n \in MemFileNames |-> NoFile]
  /\ memClock = 0
  /\ memCalls = 0
  /\ memNextId = 0
  /\ memOp = NoMemOp
  /\ memSaved = <<>>
  /\ memPatched = <<>>

InitMemory ==
  /\ memIsDm \in BOOLEAN
  /\ memFiles = [n \in MemFileNames |-> NoFile]
  /\ memClock = 0
  /\ memCalls = 0
  /\ memNextId = 0
  /\ memOp = NoMemOp
  /\ memSaved = <<>>
  /\ memPatched = <<>>

NextMemory ==
  \/ \E p \in SaveParams, dt \in {0, 1} : MemorySave(p, dt)
  \/ \E p \in PatchParams, dt \in {0, 1} : MemoryPatch(p, dt)
  \/ \E p \in SearchParams : MemorySearch(p)

(***************************************************************************)
(* Token counter and ContextAssembler.formatContext                        *)
(*                                                                         *)
(* A text is the sequence of its characters, each given by its class:      *)
(* "a" an ASCII character, "e" another non-CJK character, "c" a CJK one.   *)
(***************************************************************************)
MaxTokenLimit == 24
MaxPromptLen == 2

CharClasses == {"a", "e", "c"}

Ascii(n) == [k \in 1..n |-> "a"]

\* the weight of a character in quarter tokens: 1, 0.5 or 0.25 token
quarters(ch) == IF ch = "c" THEN 4 ELSE IF ch = "e" THEN 2 ELSE 1

RECURSIVE sumQuarters(_)
sumQuarters(text) ==
  IF text = <<>> THEN 0 ELSE quarters(Head(text)) + sumQuarters(Tail(text))

\* the sums at which the double product tokens * 1.1 lies above the exact
\* integer 11q/40, so that Math.ceil gives one more (none other up to 400)
CeilOneMore == {200, 360, 400}

\* estimateTokens: Math.ceil(tokens * 1.1)
estimateTokens(text) ==
  LET q == sumQuarters(text)
  IN (11 * q + 39) \div 40 + (IF q \in CeilOneMore THEN 1 ELSE 0)

slice(text, n) == SubSeq(text, 1, n)

\* the binary search of truncateToTokenLimit
RECURSIVE searchLength(_, _, _, _)
searchLength(text, maxTokens, low, high) ==
  IF low < high
  THEN LET mid == (low + high + 1) \div 2
       IN IF estimateTokens(slice(text, mid)) <= maxTokens
          THEN searchLength(text, maxTokens, mid, high)
          ELSE searchLength(text, maxTokens, low, mid - 1)
  ELSE low

Max0(n) == IF n > 0 THEN n ELSE 0

truncateToTokenLimit(text, maxTokens) ==
  IF estimateTokens(text) <= maxTokens THEN text
  ELSE LET low == searchLength(text, maxTokens, 0, Len(text))
       IN IF low < Len(text)
          THEN slice(text, Max0(low - 3)) \o Ascii(3)
          ELSE slice(text, low)

combinedTokenCount(a, b) == estimateTokens(a) + estimateTokens(b)

\* lines.join("\n")
RECURSIVE joinLines(_)
joinLines(lines) ==
  IF lines = <<>> THEN <<>>
  ELSE IF Len(lines) = 1 THEN lines[1]
  ELSE lines[1] \o Ascii(1) \o joinLines(Tail(lines))

\* "## Important Memories", "", then one line "<i>. <content>" per memory, ""
formatMemoriesSection(memories) ==
  joinLines(<<Ascii(21), <<>>>>
            \o [k \in 1..Len(memories) |-> Ascii(3) \o memories[k].content]
            \o <<<<>>>>)

\* "[Bot] " or "[User] ", the user name, ": ", the content
messageLine(msg) ==
  Ascii(IF msg.isBot THEN 6 ELSE 7) \o msg.username \o Ascii(2) \o msg.content

\* "## Recent Conversation", "", one line per message, ""; no related messages
formatConversationSection(recentMessages) ==
  IF Len(recentMessages) > 0
  THEN joinLines(<<Ascii(22), <<>>>>
                 \o [k \in 1..Len(recentMessages) |-> messageLine(recentMessages[k])]
                 \o <<<<>>>>)
  ELSE <<>>

\* the sections that are not empty, "## Current Message", "", the trigger
\* message, "", "Please respond to the current message above."
buildUserMessage(memoriesSection, conversationSection, triggerMessage) ==
  joinLines((IF memoriesSection # <<>> THEN <<memoriesSection>> ELSE <<>>)
            \o (IF conversationSection # <<>> THEN <<conversationSection>> ELSE <<>>)
            \o <<Ascii(18), <<>>,
                 triggerMessage.username \o Ascii(2) \o triggerMessage.content,
                 <<>>, Ascii(44)>>)

formatContext(context, tokenLimit) ==
  LET memoriesSection == IF Len(context.importantMemories) > 0
                         THEN formatMemoriesSection(context.importantMemories)
                         ELSE <<>>
      conversationSection == formatConversationSection(context.recentMessages)
      userMessage == buildUserMessage(memoriesSection, conversationSection,
                                      context.triggerMessage)
      availableTokens == tokenLimit - estimateTokens(context.systemPrompt)
      truncatedUserMessage == truncateToTokenLimit(userMessage, availableTokens)
  IN [systemMessage |-> context.systemPrompt,
      userMessage |-> truncatedUserMessage,
      estimatedTokens |-> combinedTokenCount(context.systemPrompt, truncatedUserMessage)]

RECURSIVE TextsUpTo(_)
TextsUpTo(n) ==
  IF n = 0 THEN {<<>>}
  ELSE TextsUpTo(n - 1)
         \cup {Append(t, ch) : t \in {x \in TextsUpTo(n - 1) : Len(x) = n - 1},
                               ch \in CharClasses}

ShortTexts == {<<"a">>, <<"e">>, <<"c", "c">>}

Messages == [isBot : BOOLEAN, username : {<<"a">>}, content : ShortTexts]

Contexts ==
  [systemPrompt : TextsUpTo(MaxPromptLen),
   importantMemories : {<<>>, <<[content |-> <<"c">>]>>},
   recentMessages : {<<>>} \cup {<<m>> : m \in {x \in Messages : x.content = <<"a">>}},
   triggerMessage : {m \in Messages : ~m.isBot}]

NoContext == [systemMessage |-> <<>>, userMessage |-> <<>>, estimatedTokens |-> -1]

FormatContext ==
  /\ ctxOut = NoContext
  /\ ctxOut' = formatContext(ctxIn.context, ctxIn.tokenLimit)
  /\ UNCHANGED <<baseVars, mcpVars, acVars, sdVars, memVars, srvVars, inVars, rcVars, ctxIn>>

\* no context is being formatted
IdleContext ==
  /\ ctxIn = [context |-> [systemPrompt |-> <<>>, importantMemories |-> <<>>,
                           recentMessages |-> <<>>,
                           triggerMessage |-> [isBot |-> FALSE, username |-> <<"a">>,
                                               content |-> <<"a">>]],
              tokenLimit |-> MaxTokenLimit]
  /\ ctxOut = NoContext

InitContext ==
  /\ ctxIn \in [context : Contexts, tokenLimit : 1..MaxTokenLimit]
  /\ ctxOut = NoContext

NextContext == FormatContext

(***************************************************************************)
(* SkillAPIServer.start and stop                                           *)
(***************************************************************************)
Hosts == {"127.0.0.1", "localhost", "0.0.0.0"}

DefaultSkillApi == [host |-> "127.0.0.1", port |-> 3001]

\* Deno.serve({port, hostname: config.host}, handler)
Start ==
  /\ srvServer = ""
  /\ srvServer' = srvConfig.host
  /\ UNCHANGED <<baseVars, mcpVars, acVars, sdVars, memVars, ctxVars, inVars, rcVars, srvConfig>>

\* await server.shutdown(); server = null
Stop ==
  /\ srvServer # ""
  /\ srvServer' = ""
  /\ UNCHANGED <<baseVars, mcpVars, acVars, sdVars, memVars, ctxVars, inVars, rcVars, srvConfig>>

\* the server answers requests while it listens
Serve == srvServer # "" /\ NextGW

\* the default configuration, server not started
IdleServer ==
  /\ srvConfig = DefaultSkillApi
  /\ srvServer = ""

\* the configuration is the default overridden by config.yaml
InitServer ==
  /\ srvConfig \in [host : Hosts, port : {3001}]
  /\ srvServer = ""

NextServer == Start \/ Stop \/ Serve

(***************************************************************************)
(* Inbound messages: DiscordAdapter.handleMessage, MisskeyAdapter.handleNote*)
(***************************************************************************)
\* the account the bot runs as, and another account
SelfId == "bot"
Authors == {SelfId, "u1"}

AdapterConfigs ==
  [allowDm : BOOLEAN, respondToMention : BOOLEAN, commandPrefix : {"", "!"},
   guildIds : {<<>>, <<"g1">>}]

\* messageCreate payloads; the bot's own account is a bot account
DiscordMessages ==
  {m \in [author : [id : Authors, bot : BOOLEAN], isDMBased : BOOLEAN,
          mentions : SUBSET {SelfId}, content : {"hello", "!hello"},
          guildId : {"", "g1", "g2"}] :
      /\ m.author.id = SelfId => m.author.bot
      /\ m.isDMBased <=> m.guildId = ""}

\* notes of the main channel's mention and newChatMessage events
MisskeyNotes ==
  [userId : Authors, user : [isBot : BOOLEAN], visibility : {"public", "specified"},
   text : {"", "hello", "@bot hello"}]

isBotMentioned(message, botId) == botId \in message.mentions

\* content.startsWith(commandPrefix)
startsWithPrefix(content, prefix) == prefix = "!" /\ content = "!hello"

shouldRespondToMessage(message, botId, config) ==
  IF message.author.bot THEN FALSE
  ELSE IF message.author.id = botId THEN FALSE
  ELSE IF message.isDMBased THEN config.allowDm
  ELSE IF config.respondToMention /\ isBotMentioned(message, botId) THEN TRUE
  ELSE IF config.commandPrefix # "" /\ startsWithPrefix(message.content, config.commandPrefix)
    THEN TRUE
  ELSE FALSE

\* the pattern @<botUsername> occurs in the text
isMentionToBot(note) == note.text = "@bot hello"

isDirectMessage(note) == note.visibility = "specified"

shouldRespondToNote(note, botId, config) ==
  IF note.userId = botId THEN FALSE
  ELSE IF isDirectMessage(note) THEN config.allowDm
  ELSE IF config.respondToMention /\ isMentionToBot(note) THEN TRUE
  ELSE FALSE

\* the guild filter of handleMessage
guildAllowed(message, config) ==
  ~(/\ Len(config.guildIds) > 0
    /\ message.guildId # ""
    /\ \A k \in 1..Len(config.guildIds) : config.guildIds[k] # message.guildId)

normalizeDiscordMessage(message) ==
  [platform |-> "discord", userId |-> message.author.id, isDm |-> message.isDMBased]

normalizeMisskeyNote(note, isDm) ==
  [platform |-> "misskey", userId |-> note.userId, isDm |-> isDm]

Handled(platform, author, emits, event) ==
  [platform |-> platform, author |-> author, emitted |-> emits, event |-> event]

NoInbound ==
  Handled("", [id |-> "", bot |-> FALSE], FALSE, [platform |-> "", userId |-> "", isDm |-> FALSE])

\* the Discord client is ready
DiscordReady ==
  /\ dcBotId = ""
  /\ dcBotId' = SelfId
  /\ UNCHANGED <<baseVars, mcpVars, acVars, sdVars, memVars, ctxVars, srvVars, rcVars, inConfig, mkBotId, inLast>>

\* MisskeyAdapter.connect got the bot's account
MisskeyConnected ==
  /\ mkBotId = ""
  /\ mkBotId' = SelfId
  /\ UNCHANGED <<baseVars, mcpVars, acVars, sdVars, memVars, ctxVars, srvVars, rcVars, inConfig, dcBotId, inLast>>

\* DiscordAdapter.handleMessage
HandleMessage(message) ==
  LET emits == /\ dcBotId # ""
               /\ shouldRespondToMessage(message, dcBotId, inConfig)
               /\ guildAllowed(message, inConfig)
  IN /\ inLast' = Handled("discord", message.author, emits,
                          IF emits THEN normalizeDiscordMessage(message)
                          ELSE NoInbound.event)
     /\ UNCHANGED <<baseVars, mcpVars, acVars, sdVars, memVars, ctxVars, srvVars, rcVars, inConfig, dcBotId, mkBotId>>

\* MisskeyAdapter.handleNote
HandleNote(note, isDm) ==
  LET emits == mkBotId # "" /\ shouldRespondToNote(note, mkBotId, inConfig)
  IN /\ inLast' = Handled("misskey", [id |-> note.userId, bot |-> note.user.isBot], emits,
                          IF emits THEN normalizeMisskeyNote(note, isDm)
                          ELSE NoInbound.event)
     /\ UNCHANGED <<baseVars, mcpVars, acVars, sdVars, memVars, ctxVars, srvVars, rcVars, inConfig, dcBotId, mkBotId>>

\* no adapter is connected
IdleInbound ==
  /\ inConfig = [allowDm |-> TRUE, respondToMention |-> TRUE, commandPrefix |-> "",
                 guildIds |-> <<>>]
  /\ dcBotId = ""
  /\ mkBotId = ""
  /\ inLast = NoInbound

InitInbound ==
  /\ inConfig \in AdapterConfigs
  /\ dcBotId = ""
  /\ mkBotId = ""
  /\ inLast = NoInbound

NextInbound ==
  \/ DiscordReady
  \/ MisskeyConnected
  \/ \E m \in DiscordMessages : HandleMessage(m)
  \/ \E n \in MisskeyNotes, isDm \in BOOLEAN : HandleNote(n, isDm)

(***************************************************************************)
(* Reconnection: ConnectionManager.connectWithRetry and                    *)
(* MisskeyAdapter.handleReconnect. Delays are in milliseconds.             *)
(***************************************************************************)
MaxRetries == 7

RECURSIVE pow(_, _)
pow(b, e) == IF e = 0 THEN 1 ELSE b * pow(b, e - 1)

Smaller(a, b) == IF a < b THEN a ELSE b

DEFAULT_RETRY_CONFIG ==
  [baseDelay |-> 1000, maxDelay |-> 60000, maxAttempts |-> 0, backoffMultiplier |-> 2]

\* Math.random() * 2 - 1 lies in [-1, 1); in thousandths
Randoms == {-1000, 0, 999}

\* baseDelay * multiplier ^ attempt, plus a jitter of a tenth of it times the
\* random factor, clamped to maxDelay
calculateDelay(config, attempt, random) ==
  LET delay == config.baseDelay * pow(config.backoffMultiplier, attempt)
      jitter == (delay * random) \div 10000
  IN Smaller(delay + jitter, config.maxDelay)

NoWait == [attempt |-> 0, ms |-> 0]

\* connectWithRetry up to its first await: the flag is reset and
\* adapter.connect() is called
connectWithRetry(m) ==
  [m EXCEPT !.pc = "connecting", !.attempt = 0, !.isShuttingDown = FALSE,
            !.adapter = "connecting",
            !.attemptsAfter = IF m.disconnected THEN @ + 1 ELSE @]

\* connectWithRetry is called by connectAll
ConnectWithRetry ==
  /\ cm.pc = "idle"
  /\ ~cm.disconnected
  /\ cm' = connectWithRetry(cm)
  /\ UNCHANGED <<baseVars, mcpVars, acVars, sdVars, memVars, ctxVars, srvVars, inVars, cmWait, mr, mrWait>>

\* adapter.connect() resolves
AdapterConnects ==
  /\ cm.pc = "connecting"
  /\ cm' = [cm EXCEPT !.pc = "connected", !.adapter = "connected", !.monitor = TRUE]
  /\ UNCHANGED <<baseVars, mcpVars, acVars, sdVars, memVars, ctxVars, srvVars, inVars, cmWait, mr, mrWait>>

\* adapter.connect() rejects: give up at maxAttempts, else sleep
AdapterConnectFails(random) ==
  LET attempt == cm.attempt + 1
  IN /\ cm.pc = "connecting"
     /\ attempt <= MaxRetries
     /\ IF cm.config.maxAttempts > 0 /\ attempt >= cm.config.maxAttempts
        THEN /\ cm' = [cm EXCEPT !.pc = "thrown", !.attempt = attempt,
                                 !.adapter = "disconnected"]
             /\ UNCHANGED cmWait
        ELSE /\ cm' = [cm EXCEPT !.pc = "sleeping", !.attempt = attempt,
                                 !.adapter = "disconnected"]
             /\ cmWait' = [attempt |-> attempt,
                           ms |-> calculateDelay(cm.config, attempt, random)]
     /\ UNCHANGED <<baseVars, mcpVars, acVars, sdVars, memVars, ctxVars, srvVars, inVars, mr, mrWait>>

\* the sleep is over: the loop tests isShuttingDown and tries again
SleepEnds ==
  /\ cm.pc = "sleeping"
  /\ ~cm.timerCleared
  /\ cm' = IF cm.isShuttingDown
            THEN [cm EXCEPT !.pc = "returned"]
            ELSE [cm EXCEPT !.pc = "connecting", !.adapter = "connecting",
                            !.attemptsAfter = IF cm.disconnected THEN @ + 1 ELSE @]
  /\ UNCHANGED <<baseVars, mcpVars, acVars, sdVars, memVars, ctxVars, srvVars, inVars, cmWait, mr, mrWait>>

\* ConnectionManager.disconnect: a pending sleep timer is cleared and
\* adapter.disconnect() leaves the adapter disconnected
ManagerDisconnect ==
  /\ ~cm.isShuttingDown
  /\ cm' = [cm EXCEPT !.isShuttingDown = TRUE,
                      !.timerCleared = (cm.pc = "sleeping"),
                      !.adapter = "disconnected",
                      !.disconnected = TRUE]
  /\ UNCHANGED <<baseVars, mcpVars, acVars, sdVars, memVars, ctxVars, srvVars, inVars, cmWait, mr, mrWait>>

\* the interval of monitorConnection fires: it ends when the manager is
\* shutting down, and when the connection is lost it ends and calls
\* connectWithRetry
MonitorTick ==
  /\ cm.monitor
  /\ cm.isShuttingDown \/ cm.adapter = "disconnected"
  /\ cm' = IF cm.isShuttingDown
            THEN [cm EXCEPT !.monitor = FALSE]
            ELSE [connectWithRetry(cm) EXCEPT !.monitor = FALSE]
  /\ UNCHANGED <<baseVars, mcpVars, acVars, sdVars, memVars, ctxVars, srvVars, inVars, cmWait, mr, mrWait>>

\* the platform drops the connection of the adapter
ConnectionLost ==
  /\ cm.adapter = "connected"
  /\ cm' = [cm EXCEPT !.adapter = "disconnected"]
  /\ UNCHANGED <<baseVars, mcpVars, acVars, sdVars, memVars, ctxVars, srvVars, inVars, cmWait, mr, mrWait>>

\* config.reconnect.maxAttempts ?? 5, the field given as a set of at most one
maxAttemptsOr5(reconnect) ==
  IF reconnect.maxAttempts = {} THEN 5 ELSE CHOOSE n \in reconnect.maxAttempts : TRUE

\* MisskeyAdapter.handleReconnect: the adapter and the timer it sets
handleReconnect(a) ==
  IF ~a.config.reconnect.enabled THEN a
  ELSE IF a.reconnectAttempts >= maxAttemptsOr5(a.config.reconnect)
    THEN [a EXCEPT !.state = "error", !.lastError = "Max reconnect attempts reached"]
  ELSE [a EXCEPT !.reconnectAttempts = @ + 1,
                 !.state = "reconnecting",
                 !.timer = a.config.reconnect.baseDelay * pow(2, a.reconnectAttempts)]

waitOf(a) ==
  IF handleReconnect(a).timer # 0 /\ handleReconnect(a).reconnectAttempts # a.reconnectAttempts
  THEN [attempt |-> handleReconnect(a).reconnectAttempts, ms |-> handleReconnect(a).timer]
  ELSE mrWait

\* the stream reports _disconnected_
StreamDisconnected ==
  /\ mr.state \in {"connected", "connecting"}
  /\ mr.timer = 0
  /\ mr' = handleReconnect([mr EXCEPT !.state = "disconnected"])
  /\ mrWait' = waitOf([mr EXCEPT !.state = "disconnected"])
  /\ UNCHANGED <<baseVars, mcpVars, acVars, sdVars, memVars, ctxVars, srvVars, inVars, cm, cmWait>>

\* the reconnect timer fires: connect() resolves, or rejects and
\* handleReconnect runs again
ReconnectTimer(ok) ==
  /\ mr.timer # 0
  /\ IF ok
     THEN /\ mr' = [mr EXCEPT !.timer = 0, !.state = "connecting"]
          /\ UNCHANGED mrWait
     ELSE /\ mr' = handleReconnect([mr EXCEPT !.timer = 0, !.state = "error",
                                              !.lastError = "connect failed"])
          /\ mrWait' = waitOf([mr EXCEPT !.timer = 0, !.state = "error",
                                         !.lastError = "connect failed"])
  /\ UNCHANGED <<baseVars, mcpVars, acVars, sdVars, memVars, ctxVars, srvVars, inVars, cm, cmWait>>

\* the stream reports _connected_
StreamConnected ==
  /\ mr.state = "connecting"
  /\ mr' = [mr EXCEPT !.state = "connected", !.reconnectAttempts = 0, !.lastError = ""]
  /\ UNCHANGED <<baseVars, mcpVars, acVars, sdVars, memVars, ctxVars, srvVars, inVars, cm, cmWait, mrWait>>

\* adapter is the state of the adapter; disconnected and attemptsAfter are
\* history: disconnect() was called, adapter.connect() calls made since
ManagerOf(config) ==
  [config |-> config, pc |-> "idle", attempt |-> 0, isShuttingDown |-> FALSE,
   timerCleared |-> FALSE, monitor |-> FALSE, adapter |-> "disconnected",
   disconnected |-> FALSE, attemptsAfter |-> 0]

AdapterOf(reconnect) ==
  [config |-> [reconnect |-> reconnect], state |-> "connected", reconnectAttempts |-> 0,
   timer |-> 0, lastError |-> ""]

\* nothing connects
IdleReconnect ==
  /\ cm = ManagerOf(DEFAULT_RETRY_CONFIG)
  /\ cmWait = NoWait
  /\ mr = AdapterOf([enabled |-> FALSE, maxAttempts |-> {}, baseDelay |-> 1000])
  /\ mrWait = NoWait

\* a manager with the default configuration or a cap of three attempts, and
\* a connected Misskey adapter with or without a configured cap
InitReconnect ==
  /\ cm \in {ManagerOf([DEFAULT_RETRY_CONFIG EXCEPT !.maxAttempts = n]) : n \in {0, 3}}
  /\ cmWait = NoWait
  /\ mr \in {AdapterOf(r) : r \in [enabled : BOOLEAN, maxAttempts : {{}, {MaxRetries}},
                                   baseDelay : {1000}]}
  /\ mrWait = NoWait

NextReconnect ==
  \/ ConnectWithRetry
  \/ AdapterConnects
  \/ \E r \in Randoms : AdapterConnectFails(r)
  \/ SleepEnds
  \/ ManagerDisconnect
  \/ MonitorTick
  \/ ConnectionLost
  \/ StreamDisconnected
  \/ \E ok \in BOOLEAN : ReconnectTimer(ok)
  \/ StreamConnected

(***************************************************************************)
(* AgentConnector: connect() and disconnect() of one connector             *)
(***************************************************************************)
DISCONNECT_TIMEOUT_MS == 2000

\* the clock advances in steps of half the timeout, up to MaxClock
ClockStep == DISCONNECT_TIMEOUT_MS \div 2
MaxClock == 5000

\* disconnect() calls made from outside connect()
MaxDisconnects == 2

\* a connector as constructed: no process, connection, client, capabilities
NullConnector ==
  [process |-> FALSE, connection |-> FALSE, client |-> FALSE, capabilities |-> FALSE]

NoProcess == [state |-> "none", sigterm |-> FALSE]

NoDisconnect ==
  [started |-> 0, returned |-> 0, outcome |-> "none", connector |-> NullConnector]

AtRest == [at |-> "idle", deadline |-> 0, caller |-> ""]

isConnected(c) == c.connection /\ c.process

\* faulty variant: the race has no timer, it waits for the process alone
raceDeadlineNever(t) == MaxClock + ClockStep

\* Promise.race([status, setTimeout(DISCONNECT_TIMEOUT_MS)]): when the timer fires
raceDeadline(t) == t + DISCONNECT_TIMEOUT_MS

\* faulty variant: the process handle is kept
discardKeepsProcess(c) == [NullConnector EXCEPT !.process = c.process]

\* the tail of disconnect(): process, connection, client, capabilities = null
discard(c) == NullConnector

\* process.kill("SIGTERM"): an error for a process that has exited
kill(os) ==
  IF os.state = "exited" THEN [os |-> os, error |-> TRUE]
  ELSE [os |-> [os EXCEPT !.sigterm = TRUE], error |-> FALSE]

\* disconnect() returns to its caller; connect() rethrows the initialize error
Returns(caller) ==
  /\ ac' = discard(ac)
  /\ acPc' = AtRest
  /\ acLog' = [acLog EXCEPT
       !.connect = IF caller = "connect" THEN "rejected" ELSE @,
       !.calls = IF caller = "owner" /\ acPc.at = "idle" THEN @ + 1 ELSE @,
       !.last = [started |-> IF acPc.at = "race" THEN @.started ELSE acNow,
                 returned |-> acNow, outcome |-> "returned", connector |-> discard(ac)]]

\* disconnect() up to its await: without a process nothing is awaited, an
\* error of kill is caught and logged, otherwise the race starts
disconnect_(caller) ==
  IF ~ac.process \/ kill(acOs).error
  THEN Returns(caller) /\ UNCHANGED acOs
  ELSE /\ acOs' = kill(acOs).os
       /\ acPc' = [at |-> "race", deadline |-> raceDeadline(acNow), caller |-> caller]
       /\ acLog' = [acLog EXCEPT
            !.calls = IF caller = "owner" THEN @ + 1 ELSE @,
            !.last = [started |-> acNow, returned |-> 0, outcome |-> "pending",
                      connector |-> ac]]
       /\ UNCHANGED ac

\* connect(): the subprocess is spawned, client and connection are created
\* and initialize is sent
AcConnect ==
  /\ acPc.at = "idle"
  /\ acLog.connect = "none"
  /\ ac' = [ac EXCEPT !.process = TRUE, !.client = TRUE, !.connection = TRUE]
  /\ acOs' = [state |-> "running", sigterm |-> FALSE]
  /\ acPc' = [AtRest EXCEPT !.at = "initialize"]
  /\ acLog' = [acLog EXCEPT !.spawned = TRUE]
  /\ UNCHANGED <<baseVars, mcpVars, sdVars, memVars, ctxVars, srvVars, inVars, rcVars, acNow>>

\* connect(): command.spawn() throws
SpawnFails ==
  /\ acPc.at = "idle"
  /\ acLog.connect = "none"
  /\ acLog' = [acLog EXCEPT !.connect = "rejected"]
  /\ UNCHANGED <<baseVars, mcpVars, sdVars, memVars, ctxVars, srvVars, inVars, rcVars, ac, acPc, acOs, acNow>>

\* connection.initialize() settles
InitializeReturns(ok) ==
  /\ acPc.at = "initialize"
  /\ IF ok
     THEN /\ ac' = [ac EXCEPT !.capabilities = TRUE]
          /\ acPc' = AtRest
          /\ acLog' = [acLog EXCEPT !.connect = "resolved"]
          /\ UNCHANGED acOs
     ELSE disconnect_("connect")
  /\ UNCHANGED <<baseVars, mcpVars, sdVars, memVars, ctxVars, srvVars, inVars, rcVars, acNow>>

\* disconnect() called by the owner of the connector
AcDisconnect ==
  /\ acPc.at = "idle"
  /\ acLog.calls < MaxDisconnects
  /\ disconnect_("owner")
  /\ UNCHANGED <<baseVars, mcpVars, sdVars, memVars, ctxVars, srvVars, inVars, rcVars, acNow>>

\* the subprocess exits, on the signal or by itself; one that ignores
\* SIGTERM never takes this step
ProcessExits ==
  /\ acOs.state = "running"
  /\ acOs' = [acOs EXCEPT !.state = "exited"]
  /\ UNCHANGED <<baseVars, mcpVars, sdVars, memVars, ctxVars, srvVars, inVars, rcVars, ac, acPc, acNow, acLog>>

\* the race is won by process.status
StatusResolves ==
  /\ acPc.at = "race"
  /\ acOs.state = "exited"
  /\ Returns(acPc.caller)
  /\ UNCHANGED <<baseVars, mcpVars, sdVars, memVars, ctxVars, srvVars, inVars, rcVars, acOs, acNow>>

\* the race is won by the timer
TimeoutResolves ==
  /\ acPc.at = "race"
  /\ acNow >= acPc.deadline
  /\ Returns(acPc.caller)
  /\ UNCHANGED <<baseVars, mcpVars, sdVars, memVars, ctxVars, srvVars, inVars, rcVars, acOs, acNow>>

\* a clock step passes; a timer that is due fires before the clock moves on
AcTick ==
  /\ acNow + ClockStep <= MaxClock
  /\ acPc.at = "race" => acNow < acPc.deadline
  /\ acNow' = acNow + ClockStep
  /\ UNCHANGED <<baseVars, mcpVars, sdVars, memVars, ctxVars, srvVars, inVars, rcVars, ac, acPc, acOs, acLog>>

\* a connector as constructed
InitConnector ==
  /\ ac = NullConnector
  /\ acPc = AtRest
  /\ acOs = NoProcess
  /\ acNow = 0
  /\ acLog = [connect |-> "none", spawned |-> FALSE, calls |-> 0, last |-> NoDisconnect]

IdleConnector == InitConnector

NextConnector ==
  \/ AcConnect
  \/ SpawnFails
  \/ \E ok \in BOOLEAN : InitializeReturns(ok)
  \/ AcDisconnect
  \/ ProcessExits
  \/ StatusResolves
  \/ TimeoutResolves
  \/ AcTick

(***************************************************************************)
(* ShutdownHandler, the signal handler of main.ts, and events arriving     *)
(***************************************************************************)
MaxShutdownCalls == 2
MaxEvents == 2

ShutdownCalls == 1..MaxShutdownCalls

Platforms == {"discord", "misskey"}

\* Deno.exit(code): the process ends, unless the caller replaced Deno.exit
\* by a function that counts (tests/main.test.ts)
exit(proc, code) ==
  [proc EXCEPT !.alive = proc.mocked, !.exits = @ + 1, !.code = code]

\* faulty variant: the guard of shutdown() never sees a shutdown in progress
inProgressNever(h) == FALSE

\* shutdown(): if (this.isShuttingDown)
inProgress(h) == h.isShuttingDown

\* performShutdown() has returned: the promise of the sequence settles
Finished(h) == [h EXCEPT !.at = "done", !.shutdownPromise = "resolved"]

\* shutdown(): a call during a shutdown returns the promise of the running
\* sequence; the first call starts performShutdown(), which exits at once
\* without a context and otherwise calls agentCore.shutdown()
Shutdown(c) ==
  /\ sdProc.alive
  /\ sdCalls[c] = "none"
  /\ sdCalls' = [sdCalls EXCEPT ![c] = "waiting"]
  /\ IF inProgress(sd)
     THEN UNCHANGED <<sd, sdProc, sdLog>>
     ELSE /\ sdLog' = [sdLog EXCEPT !.runs = @ + 1]
          /\ IF ~sd.context
             THEN /\ sdProc' = exit(sdProc, 0)
                  /\ sd' = Finished([sd EXCEPT !.isShuttingDown = TRUE])
             ELSE /\ sd' = [sd EXCEPT !.isShuttingDown = TRUE, !.at = "agentCore",
                                      !.shutdownPromise = "pending"]
                  /\ UNCHANGED sdProc
  /\ UNCHANGED <<baseVars, mcpVars, memVars, ctxVars, srvVars, inVars, rcVars, acVars, sdAdapters>>

\* agentCore.shutdown() settles: performShutdown() goes on to
\* platformRegistry.disconnectAll(), which calls disconnect() of every
\* manager, or catches the error and exits with 1
AgentCoreShutdownReturns(ok) ==
  /\ sdProc.alive
  /\ sd.at = "agentCore"
  /\ IF ok
     THEN /\ sd' = [sd EXCEPT !.at = "platforms"]
          /\ sdAdapters' = [a \in Platforms |->
                              IF sdAdapters[a] = "connected" THEN "disconnecting"
                              ELSE sdAdapters[a]]
          /\ UNCHANGED sdProc
     ELSE /\ sd' = Finished(sd)
          /\ sdProc' = exit(sdProc, 1)
          /\ UNCHANGED sdAdapters
  /\ UNCHANGED <<baseVars, mcpVars, memVars, ctxVars, srvVars, inVars, rcVars, acVars, sdCalls, sdLog>>

\* adapter.disconnect() of one platform completes
AdapterDisconnected(a) ==
  /\ sdProc.alive
  /\ sdAdapters[a] = "disconnecting"
  /\ sdAdapters' = [sdAdapters EXCEPT ![a] = "disconnected"]
  /\ UNCHANGED <<baseVars, mcpVars, memVars, ctxVars, srvVars, inVars, rcVars, acVars, sd, sdCalls, sdProc, sdLog>>

\* disconnectAll() returns when every manager has disconnected:
\* performShutdown() exits with 0
DisconnectAllReturns ==
  /\ sdProc.alive
  /\ sd.at = "platforms"
  /\ \A a \in Platforms : sdAdapters[a] = "disconnected"
  /\ sd' = Finished(sd)
  /\ sdProc' = exit(sdProc, 0)
  /\ UNCHANGED <<baseVars, mcpVars, memVars, ctxVars, srvVars, inVars, rcVars, acVars, sdCalls, sdAdapters, sdLog>>

\* a shutdown() call completes: it awaited the promise of the sequence
ShutdownCompletes(c) ==
  /\ sdProc.alive
  /\ sdCalls[c] = "waiting"
  /\ sd.shutdownPromise = "resolved"
  /\ sdCalls' = [sdCalls EXCEPT ![c] = "done"]
  /\ UNCHANGED <<baseVars, mcpVars, memVars, ctxVars, srvVars, inVars, rcVars, acVars, sd, sdProc, sdAdapters, sdLog>>

\* main.ts: the listener of SIGINT and SIGTERM exits at once
MainShutdown ==
  /\ sdProc.alive
  /\ ~sdProc.mocked
  /\ sdProc' = exit(sdProc, 0)
  /\ sdLog' = [sdLog EXCEPT !.begun = TRUE]
  /\ UNCHANGED <<baseVars, mcpVars, memVars, ctxVars, srvVars, inVars, rcVars, acVars, sd, sdCalls, sdAdapters>>

\* an adapter that has not disconnected yet emits an event:
\* AgentCore.handleEvent passes it to MessageHandler.handleEvent, which
\* starts orchestrator.processMessage
EventArrives(a) ==
  /\ sdProc.alive
  /\ sdAdapters[a] # "disconnected"
  /\ Len(sdLog.started) < MaxEvents
  /\ sdLog' = [sdLog EXCEPT !.started =
                 Append(@, [platform |-> a, afterShutdown |-> sd.isShuttingDown \/ sdLog.begun])]
  /\ UNCHANGED <<baseVars, mcpVars, memVars, ctxVars, srvVars, inVars, rcVars, acVars, sd, sdCalls, sdProc, sdAdapters>>

HandlerOf(context) ==
  [context |-> context, isShuttingDown |-> FALSE, shutdownPromise |-> "null", at |-> "idle"]

ProcessOf(mocked) == [alive |-> TRUE, mocked |-> mocked, exits |-> 0, code |-> 0]

NoShutdownLog == [runs |-> 0, begun |-> FALSE, started |-> <<>>]

\* no shutdown handler in use
IdleShutdown ==
  /\ sd = HandlerOf(FALSE)
  /\ sdCalls = [c \in ShutdownCalls |-> "none"]
  /\ sdProc = ProcessOf(FALSE)
  /\ sdAdapters = [a \in Platforms |-> "connected"]
  /\ sdLog = NoShutdownLog

\* a handler with or without a context, in the program, where both
\* adapters are connected, or under a test that replaced Deno.exit and has
\* no adapter
InitShutdown ==
  /\ sd \in {HandlerOf(c) : c \in BOOLEAN}
  /\ sdCalls = [c \in ShutdownCalls |-> "none"]
  /\ sdProc \in {ProcessOf(m) : m \in BOOLEAN}
  /\ sdAdapters = [a \in Platforms |-> IF sdProc.mocked THEN "disconnected" ELSE "connected"]
  /\ sdLog = NoShutdownLog

NextShutdown ==
  \/ \E c \in ShutdownCalls : Shutdown(c)
  \/ \E ok \in BOOLEAN : AgentCoreShutdownReturns(ok)
  \/ \E a \in Platforms : AdapterDisconnected(a)
  \/ DisconnectAllReturns
  \/ \E c \in ShutdownCalls : ShutdownCompletes(c)
  \/ MainShutdown
  \/ \E a \in Platforms : EventArrives(a)

(***************************************************************************)
(* MCP server: the send_reply tool                                         *)
(***************************************************************************)
MaxMcpCalls == 3

McpMessages == {"hi", "bye"}

\* getWorkspaceInfo: `${platform}/${userId}/${channelId}`
workspaceKey(env) == <<env.platform, env.userId, env.channelId>>

\* createSkillContext: the workspace and the channel of the environment
createSkillContext(env) == [workspace |-> [key |-> workspaceKey(env)], channelId |-> env.channelId]

\* `${workspaceKey}:${channelId}`
getSessionKey(context) == <<context.workspace.key, context.channelId>>

\* the tool result: the message echoed, or an error text
ToolResult(isError, text) == [isError |-> isError, text |-> text]

\* the send_reply tool: the result it returns
send_reply(map, env, message) ==
  IF hasReplySentInternal(map, getSessionKey(createSkillContext(env)))
  THEN ToolResult(TRUE, "Error: Reply can only be sent once per interaction")
  ELSE ToolResult(FALSE, message)

\* the send_reply tool: the reply state it leaves behind; the tool reads
\* the state and never marks it
send_replyMap(map, env, message) == map

\* the agent calls the send_reply tool
McpSendReply(message) ==
  /\ Len(mcpResults) < MaxMcpCalls
  /\ mcpResults' = Append(mcpResults, send_reply(mcpReplySent, mcpEnv, message))
  /\ mcpReplySent' = send_replyMap(mcpReplySent, mcpEnv, message)
  /\ UNCHANGED <<baseVars, memVars, ctxVars, srvVars, inVars, rcVars, acVars, sdVars, mcpEnv>>

EnvOf(platform, userId, channelId) ==
  [platform |-> platform, userId |-> userId, channelId |-> channelId]

\* no MCP server
IdleMcp ==
  /\ mcpEnv = EnvOf("discord", "unknown", "unknown")
  /\ mcpReplySent = {}
  /\ mcpResults = <<>>

\* the server has started for one interaction: initializeDependencies made
\* a new ReplyHandler, the environment names the channel or leaves it unset
InitMcp ==
  /\ mcpEnv \in {EnvOf(p, u, c) : p \in {"discord", "misskey"}, u \in {"unknown", "1"},
                                  c \in {"unknown", "10"}}
  /\ mcpReplySent = {}
  /\ mcpResults = <<>>

NextMcp == \E m \in McpMessages : McpSendReply(m)

IdleAux ==
  IdleMemory /\ IdleContext /\ IdleServer /\ IdleInbound /\ IdleReconnect /\ IdleConnector
    /\ IdleShutdown /\ IdleMcp


(***************************************************************************)
(* Specifications                                                          *)
(***************************************************************************)
Init == InitGW /\ InitCore /\ IdleFS /\ IdlePerm /\ IdleMisskey /\ IdleAux /\ replySentMap = {}

\* the skill gateway, the session registry and the reply handler
Next == NextGW
Spec == Init /\ [][Next]_vars

\* the event pipeline: message handler, orchestrator, dispatcher
SpecCore == Init /\ [][NextCore]_vars

\* the event pipeline with the clock. Every awaited step of the bot itself
\* settles; the agent is free never to finish its prompt.
NextTimeout == NextCore \/ Tick

FairTimeout ==
  /\ WF_vars(Tick)
  /\ \A t \in TaskIds :
        /\ WF_vars(\E ok \in BOOLEAN, e \in ExceptionMessages : WorkspaceReady(t, ok, e))
        /\ WF_vars(\E ok \in BOOLEAN, e \in ExceptionMessages : Connected(t, ok, e))
        /\ WF_vars(\E ok \in BOOLEAN, e \in ExceptionMessages : SessionCreated(t, ok, e))
        /\ WF_vars(\E ok \in BOOLEAN, e \in ExceptionMessages : ModelSet(t, ok, e))
        /\ WF_vars(Disconnected(t))
        /\ WF_vars(Dispatch(t))
        /\ WF_vars(\E o \in AdapterOutcomes : NoticeReturns(t, o))
  /\ \A c \in 1..MaxCalls : WF_vars(\E o \in AdapterOutcomes : ReplyAdapterReturns(c, o))

SpecTimeout == Init /\ [][NextTimeout]_vars /\ FairTimeout

\* file requests of the agent
InitFiles == InitGW /\ InitCore /\ InitFS /\ IdlePerm /\ IdleMisskey /\ IdleAux /\ replySentMap = {}

SpecFS == InitFiles /\ [][NextFS]_vars

\* permission requests of the agent
InitPermission == InitGW /\ InitCore /\ IdleFS /\ InitPerm /\ IdleMisskey /\ IdleAux /\ replySentMap = {}

SpecPerm == InitPermission /\ [][NextPerm]_vars

\* replies posted to Misskey
InitNotes ==
  InitGW /\ InitCore /\ IdleFS /\ IdlePerm /\ InitMisskey /\ IdleAux /\ replySentMap = {}

SpecMisskey == InitNotes /\ [][NextMisskey]_vars

\* the memory skills in one workspace
InitMemoryLog ==
  InitGW /\ InitCore /\ IdleFS /\ IdlePerm /\ IdleMisskey /\ InitMemory /\ IdleContext /\ IdleServer /\ IdleInbound
    /\ IdleReconnect /\ IdleConnector /\ IdleShutdown /\ IdleMcp /\ replySentMap = {}

SpecMemory == InitMemoryLog /\ [][NextMemory]_vars

\* the context assembler formatting one context
InitFormat ==
  InitGW /\ InitCore /\ IdleFS /\ IdlePerm /\ IdleMisskey /\ IdleMemory /\ InitContext
    /\ IdleServer /\ IdleInbound /\ IdleReconnect /\ IdleConnector /\ IdleShutdown /\ IdleMcp /\ replySentMap = {}

SpecContext == InitFormat /\ [][NextContext]_vars

\* the skill gateway from its start
InitGateway ==
  InitGW /\ InitCore /\ IdleFS /\ IdlePerm /\ IdleMisskey /\ IdleMemory /\ IdleContext
    /\ InitServer /\ IdleInbound /\ IdleReconnect /\ IdleConnector /\ IdleShutdown /\ IdleMcp /\ replySentMap = {}

SpecServer == InitGateway /\ [][NextServer]_vars

\* messages arriving at the platform adapters
InitAdapters ==
  InitGW /\ InitCore /\ IdleFS /\ IdlePerm /\ IdleMisskey /\ IdleMemory /\ IdleContext
    /\ IdleServer /\ InitInbound /\ IdleReconnect /\ IdleConnector /\ IdleShutdown /\ IdleMcp /\ replySentMap = {}

SpecInbound == InitAdapters /\ [][NextInbound]_vars

\* connections being established and re-established
InitConnections ==
  InitGW /\ InitCore /\ IdleFS /\ IdlePerm /\ IdleMisskey /\ IdleMemory /\ IdleContext
    /\ IdleServer /\ IdleInbound /\ InitReconnect /\ IdleConnector /\ IdleShutdown /\ IdleMcp /\ replySentMap = {}

SpecReconnect == InitConnections /\ [][NextReconnect]_vars

\* one agent connector from its construction
InitAgent ==
  InitGW /\ InitCore /\ IdleFS /\ IdlePerm /\ IdleMisskey /\ IdleMemory /\ IdleContext
    /\ IdleServer /\ IdleInbound /\ IdleReconnect /\ InitConnector /\ IdleShutdown /\ IdleMcp /\ replySentMap = {}

SpecConnector == InitAgent /\ [][NextConnector]_vars

\* the process being shut down while its adapters deliver events
InitProcess ==
  InitGW /\ InitCore /\ IdleFS /\ IdlePerm /\ IdleMisskey /\ IdleMemory /\ IdleContext
    /\ IdleServer /\ IdleInbound /\ IdleReconnect /\ IdleConnector /\ InitShutdown
    /\ IdleMcp /\ replySentMap = {}

SpecShutdown == InitProcess /\ [][NextShutdown]_vars

\* the MCP server during one interaction
InitMcpServer ==
  InitGW /\ InitCore /\ IdleFS /\ IdlePerm /\ IdleMisskey /\ IdleMemory /\ IdleContext
    /\ IdleServer /\ IdleInbound /\ IdleReconnect /\ IdleConnector /\ IdleShutdown
    /\ InitMcp /\ replySentMap = {}

SpecMcp == InitMcpServer /\ [][NextMcp]_vars

(***************************************************************************)
(* Properties of the gateway, the registry and the reply handler           *)
(***************************************************************************)

\* a gateway request was received in this step; lastResp' describes it
Received == nreq' = nreq + 1

\* the request carried the id of a registered record whose timeout has elapsed
CarriesExpired(sid) ==
  /\ sid \in DOMAIN sessions
  /\ now - sessions[sid].startedAt > sessions[sid].timeoutMs

\* the request carried the id of a registered record whose timeout has not elapsed
CarriesValid(sid) ==
  /\ sid \in DOMAIN sessions
  /\ now - sessions[sid].startedAt <= sessions[sid].timeoutMs

\* C1: for every session the send-reply handler dispatches at most one reply
\* (successful adapter.sendReply), whatever the interleaving of invocations.
C1_AtMostOneReplyPerSession ==
  \A s \in SessionIds : sentCount[s] <= 1

\* C3: a session record's replySent starts false and, while the record is in
\* the registry, never goes back from true to false.
C3_ReplySentMonotone ==
  [][\A s \in SessionIds :
        /\ (s \notin DOMAIN sessions /\ s \in DOMAIN sessions')
              => ~hasReplySent(sessions', s)
        /\ (s \in DOMAIN sessions /\ s \in DOMAIN sessions' /\ hasReplySent(sessions, s))
              => hasReplySent(sessions', s)]_vars

C3_Witness ==
  \E s \in SessionIds :
     /\ s \in DOMAIN sessions
     /\ sessions[s].replySent
     /\ markBy[s] = {"gateway", "direct"}

\* C4: markReplySent is a compare-and-set: of all the attempts made on a
\* registered session, from the gateway and from other callers, exactly one
\* returns true (the one that set the flag) and every other returns false.
C4_MarkReplySentCAS ==
  \A s \in SessionIds :
     /\ markTrue[s] <= 1
     /\ markBy[s] # {} => markTrue[s] = 1
     /\ (markTrue[s] = 1 /\ s \in DOMAIN sessions) => sessions[s].replySent

C4_Witness ==
  \E s \in SessionIds : markBy[s] = {"gateway", "direct"} /\ markTrue[s] = 1

\* C5 (as claimed): once a send-reply returned 200 for a session, its
\* replySent is true and every later send-reply request for it gets 409
\* without the adapter being called.
C5_Original ==
  [][/\ \A s \in ok200' \ ok200 : hasReplySent(sessions', s)
     /\ (Received /\ lastResp'.skill = "send-reply" /\ lastResp'.sid \in ok200)
          => (lastResp'.status = 409 /\ ~lastResp'.ran)]_vars

\* C5 (amended): once a send-reply returned 200 for a session, replySent is
\* true for as long as the record stays registered, and every later
\* send-reply request for it is refused before the handler runs: 409 while the
\* session is registered and unexpired, 401 otherwise.
C5_Amended ==
  [][/\ \A s \in ok200' : s \in DOMAIN sessions' => sessions'[s].replySent
     /\ (Received /\ lastResp'.skill = "send-reply" /\ lastResp'.sid \in ok200)
          => /\ ~lastResp'.ran
             /\ UNCHANGED <<inflight, sentCount, replySentMap>>
             /\ IF CarriesValid(lastResp'.sid)
                  THEN /\ lastResp'.status = 409
                       /\ lastResp'.error = "Reply already sent for this session"
                  ELSE /\ lastResp'.status = 401
                       /\ lastResp'.error = "Invalid or expired session"]_vars

C5_Witness ==
  /\ lastResp.status = 409
  /\ lastResp.sid \in ok200
  /\ sentCount[lastResp.sid] = 1

\* C8: a request whose session's timeout has elapsed is answered 401
\* "Invalid or expired session", and no skill runs for it.
C8_ExpiredGets401 ==
  [][(Received /\ CarriesExpired(lastResp'.sid))
        => /\ lastResp'.status = 401
           /\ lastResp'.error = "Invalid or expired session"
           /\ ~lastResp'.ran
           /\ UNCHANGED <<inflight, sentCount, replySentMap>>]_vars

C8_Witness ==
  /\ lastResp.status = 401
  /\ lastResp.sid \in evicted

\* C9: a skill handler runs only for a request whose sessionId names a
\* registered, unexpired session; a missing sessionId gets 400, an unknown one
\* 401, and neither changes any session or reply state.
C9_OnlyValidSessionsRunSkills ==
  [][Received =>
       /\ lastResp'.ran => CarriesValid(lastResp'.sid)
       /\ (lastResp'.skill # "" /\ lastResp'.sid = NoSid)
            => /\ lastResp'.status = 400
               /\ lastResp'.error = "Missing sessionId"
               /\ ~lastResp'.ran
               /\ UNCHANGED <<sessions, inflight, sentCount, replySentMap, markTrue>>
       /\ (lastResp'.sid \notin {NoSid, BadJson} /\ lastResp'.sid \notin DOMAIN sessions)
            => /\ lastResp'.status = 401
               /\ lastResp'.error = "Invalid or expired session"
               /\ ~lastResp'.ran
               /\ UNCHANGED <<sessions, inflight, sentCount, replySentMap, markTrue>>]_vars

C9_Witness ==
  /\ lastResp.status = 401
  /\ lastResp.sid = UnknownSid
  /\ DOMAIN sessions # {}

\* C13: the handler's reply state and the session flag are set only in a step
\* that follows a successful adapter call; a send-reply that is answered 400
\* (validation failed, the adapter returned failure or threw) leaves both as
\* they were, so a later send-reply of the session still reaches the adapter.
C13_ReplySentOnlyAfterSuccess ==
  [][/\ \A k \in replySentMap' \ replySentMap :
          \E r \in DOMAIN inflight :
             /\ inflight[r].pc = "adapter" /\ inflight[r].key = k
             /\ sentCount'[inflight[r].sid] = sentCount[inflight[r].sid] + 1
     /\ \A s \in DOMAIN sessions \cap DOMAIN sessions' :
          (~sessions[s].replySent /\ sessions'[s].replySent) =>
             \/ /\ lastResp'.status = 200 /\ lastResp'.skill = "send-reply"
                /\ lastResp'.sid = s /\ sentCount[s] > 0
             \/ "direct" \in markBy'[s] \ markBy[s]
     /\ (/\ DOMAIN inflight' # DOMAIN inflight /\ nreq' = nreq
         /\ lastResp'.status = 400 /\ lastResp'.skill = "send-reply")
          => /\ replySentMap' = replySentMap
             /\ \A s \in DOMAIN sessions :
                   s \in DOMAIN sessions' /\ sessions'[s].replySent = sessions[s].replySent]_vars

C13_Witness ==
  \E s \in SessionIds : failed400[s] = 1 /\ s \in ok200 /\ nreq = 2 /\ sentCount[s] = 1

(***************************************************************************)
(* Properties of the event pipeline                                        *)
(***************************************************************************)
SameKey(t, u) ==
  eventKey(Platform, tasks[t].msg) = eventKey(Platform, tasks[u].msg)

\* C2: for every admitted event at most one message in total, reply or
\* error notice, is delivered to the originating channel.
C2_AtMostOneOutbound ==
  \A t \in TaskIds : replies[t] + notices[t] <= 1

\* C6: for every key at most one orchestration runs at a time; an event that
\* arrives while its key is in flight is rejected with a failure result and
\* starts no orchestration.
C6_OneOrchestrationPerKey ==
  /\ \A t, u \in TaskIds :
        (t # u /\ tasks[t].pc \in Running /\ tasks[u].pc \in Running) => ~SameKey(t, u)
  /\ \A t \in TaskIds :
        tasks[t].rejected =>
           /\ tasks[t].pc \notin Running
           /\ ~tasks[t].connected
           /\ ~tasks[t].resp.success
           /\ tasks[t].resp.error = ErrDuplicate

C6_Witness ==
  \E t, u \in TaskIds :
     /\ t # u /\ SameKey(t, u)
     /\ tasks[t].pc = "prompt"
     /\ tasks[u].rejected

\* C7: rejecting a duplicate changes nothing but the rejected event's own
\* record: no agent, no reply state, no message to the platform (the error
\* notice included), and the key of the event in flight stays in the active
\* set until that event finishes.
C7_DuplicateNoSideEffects ==
  [][\A t \in TaskIds :
        /\ (tasks'[t].rejected /\ ~tasks[t].rejected)
              => /\ UNCHANGED <<activeEvents, replySentMap, calls, ncalls,
                                replies, notices>>
                 /\ \A u \in TaskIds \ {t} : tasks'[u] = tasks[u]
        /\ tasks'[t].rejected
              => /\ tasks'[t].pc \in {"responded", "done"}
                 /\ ~tasks'[t].connected
                 /\ replies'[t] = 0 /\ notices'[t] = 0
        /\ tasks'[t].pc \in Running
              => eventKey(Platform, tasks'[t].msg) \in activeEvents']_vars

C7_Witness ==
  \E t, u \in TaskIds :
     /\ t # u /\ SameKey(t, u)
     /\ tasks[t].pc \in Running
     /\ tasks[u].rejected /\ tasks[u].pc = "done"

\* C14: an orchestration that connected its agent connector has disconnected
\* it when processMessage has returned, whatever the outcome was.
C14_DisconnectedOnReturn ==
  \A t \in TaskIds :
     tasks[t].pc \in {"responded", "dispatch", "done"} => ~tasks[t].connected

C14_Witness ==
  \E t, u \in TaskIds :
     /\ tasks[t].pc = "responded" /\ tasks[t].resp.error = ErrUnexpected
     /\ tasks[u].pc = "done" /\ tasks[u].resp.success

\* the orchestration of event t has an agent process spawned or being spawned
AgentSpawned(t) == tasks[t].pc \in {"connect", "session", "model", "prompt"}

\* C15: an orchestration has a session of its own in the session registry
\* from before its agent is spawned, and no session is left in the registry
\* once the orchestrations have finished.
C15_SessionRegisteredWhileRunning ==
  /\ \A t \in TaskIds :
        AgentSpawned(t) => \E s \in DOMAIN sessions : sessions[s].key = tasks[t].key
  /\ (\A t \in TaskIds : tasks[t].pc \notin Running) => sessions = <<>>

\* C16: an orchestration whose prompt is still running when the session
\* timeout has elapsed comes to an end, with its agent disconnected and its
\* key out of the active set.
C16_TimeoutEndsOrchestration ==
  \A t \in TaskIds :
     (tasks[t].pc = "prompt" /\ \A ms \in Timeouts : now > ms)
        ~> (tasks[t].pc \notin Running /\ ~tasks[t].connected)

\* the orchestration of event t is over and its prompt returned stopReason
Stopped(t, stopReason) ==
  tasks[t].pc \in {"responded", "dispatch", "done"} /\ tasks[t].stop = stopReason

\* C17: when the prompt ended with end_turn and no reply was sent for the
\* event, the result is a failure and the generic message is dispatched.
C17_NoReplyDispatchesNotice ==
  [][\A t \in TaskIds :
        (Stopped(t, "end_turn")' /\ replies'[t] = 0) =>
           /\ ~tasks'[t].resp.success
           /\ (tasks[t].pc = "responded" /\ tasks'[t].pc # "responded")
                 => tasks'[t].pc = "dispatch"]_vars

\* the orchestration of event t failed with an exception: it was admitted and
\* its prompt never returned a stop reason
FailedByException(t) ==
  /\ tasks[t].pc \in {"responded", "dispatch", "done"}
  /\ ~tasks[t].rejected /\ tasks[t].stop = ""

\* C18: every failure caused by an exception has the generic message
\* dispatched, whatever the text of the exception.
C18_ExceptionDispatchesNotice ==
  [][\A t \in TaskIds :
        (FailedByException(t) /\ tasks[t].pc = "responded" /\ tasks'[t].pc # "responded")
           => tasks'[t].pc = "dispatch"]_vars

\* C19 (as claimed): when the prompt was cancelled the result is a failure
\* and no message of any kind goes to the platform for the event.
C19_Original ==
  [][\A t \in TaskIds :
        Stopped(t, "cancelled")' =>
           /\ ~tasks'[t].resp.success
           /\ replies'[t] = 0 /\ notices'[t] = 0
           /\ tasks'[t].pc # "dispatch"]_vars

\* C19 (amended): when the prompt was cancelled and no reply is recorded for
\* the event's workspace and channel, the result is the failure "Session was
\* cancelled" and no error notice is dispatched; when a reply is recorded the
\* result is a success.
C19_Amended ==
  [][\A t \in TaskIds :
        Stopped(t, "cancelled")' =>
           /\ tasks'[t].pc # "dispatch" /\ notices'[t] = 0
           /\ IF tasks'[t].resp.replySent
                THEN tasks'[t].resp = Response(TRUE, TRUE, NoError)
                ELSE tasks'[t].resp = Response(FALSE, FALSE, ErrCancelled)]_vars

C19_Witness ==
  \E t \in TaskIds :
     /\ tasks[t].pc = "done" /\ tasks[t].stop = "cancelled"
     /\ ~tasks[t].resp.success /\ replies[t] = 0

\* C20: a failure stays inside the handling of its own event: handleEvent
\* never ends by throwing, a step of one event changes no other event's
\* record, and a step that records a failure changes neither the reply state
\* nor the pending replies, and removes no key but the event's own.
C20_FailuresAreContained ==
  [][\A t \in TaskIds :
        /\ tasks'[t].pc # "threw"
        /\ tasks'[t] # tasks[t] => \A u \in TaskIds \ {t} : tasks'[u] = tasks[u]
        /\ (tasks'[t].resp # tasks[t].resp /\ ~tasks'[t].resp.success)
              => /\ replySentMap' = replySentMap /\ calls' = calls
                 /\ replies' = replies /\ notices' = notices
                 /\ activeEvents \ activeEvents' \subseteq {eventKey(Platform, tasks[t].msg)}]_vars

C20_Witness ==
  \E t, u \in TaskIds :
     /\ tasks[t].pc = "done" /\ FailedByException(t) /\ notices[t] = 0
     /\ ~skipErrorMessage(tasks[t].resp.error)
     /\ tasks[u].pc = "prompt"

(***************************************************************************)
(* Properties of the file requests                                         *)
(***************************************************************************)
\* the names are those of the workspace directory or of something below it
InsideWorkspace(segs) ==
  LET ws == RealPath(resolveSegments(WorkingDir), fsLinks)
  IN Len(ws) <= Len(segs) /\ SubSeq(segs, 1, Len(ws)) = ws

\* C10: a file request opens the file only when the fully resolved target is
\* the workspace directory or a descendant; every other request is denied.
C10_FileAccessInsideWorkspace ==
  fsOp # NoOp =>
     IF InsideWorkspace(RealPath(resolveSegments(fsPath), fsLinks))
       THEN fsOp.result = "performed"
       ELSE fsOp.result = "Access denied: path outside working directory"

(***************************************************************************)
(* Properties of the permission requests                                   *)
(***************************************************************************)
AllowKinds == {"allow_once", "allow_always"}
RejectKinds == {"reject_once", "reject_always"}

\* C11: an allow option is selected only for a registered skill, a read under
\* the skills directory or a shell execution of skill commands; for every
\* other tool call a reject option is selected, whatever options are offered.
C11_AllowOnlyForSkills ==
  (permRes.outcome = "selected" /\ ~autoApproves(permReq.toolCall)) =>
     permReq.options[permRes.optionId] \in RejectKinds

\* the name the decision is to be taken on: rawInput.skill, else the title
DecisionName(toolCall) ==
  IF toolCall.rawInput.skill # Absent THEN toolCall.rawInput.skill ELSE toolCall.title

Offers(kind) == \E i \in 1..Len(permReq.options) : permReq.options[i] = kind

Selects(kind) ==
  permRes.outcome = "selected" /\ permReq.options[permRes.optionId] = kind

\* C25: the permission decision is taken on rawInput.skill when it is present
\* and on the title otherwise: a call whose name is a registered skill is
\* approved, also when it carries no rawInput.skill; a call whose name is not
\* registered, and which is neither a skills read nor a skill command, is
\* rejected.
C25_SkillNameFallsBackToTitle ==
  permRes # NoAnswer =>
    /\ (hasSkill(DecisionName(permReq.toolCall)) /\ Offers("allow_once"))
          => Selects("allow_once")
    /\ (/\ ~hasSkill(DecisionName(permReq.toolCall))
        /\ ~isReadingSkills(permReq.toolCall)
        /\ ~isSkillCommand(permReq.toolCall)
        /\ Offers("reject_once"))
          => Selects("reject_once")

(***************************************************************************)
(* Properties of the Misskey replies                                       *)
(***************************************************************************)
\* C12: every reply posted in response to a specified-visibility note has
\* visibility "specified" and is visible to the original author only.
C12_DmRepliesStaySpecified ==
  mkNote.visibility = "specified" =>
     \A i \in 1..Len(mkPosted) :
        /\ mkPosted[i].visibility = "specified"
        /\ mkPosted[i].visibleUserIds = Some(<<mkNote.userId>>)

(***************************************************************************)
(* Properties of the memory log                                            *)
(***************************************************************************)
SavesPrivate(op) ==
  /\ op.op = "memory-save"
  /\ Has(op.params, "content") /\ op.params.content # <<>>
  /\ Has(op.params, "visibility") /\ op.params.visibility = "private"

\* C21: in a non-DM workspace a memory-save with visibility private is
\* rejected with 'Private memories can only be saved in DM contexts', and no
\* sequence of memory operations creates memory.private.jsonl there.
C21_NoPrivateMemoryOutsideDm ==
  ~memIsDm =>
    /\ ~memFiles["private"].exists
    /\ SavesPrivate(memOp) =>
         memOp.result = MemFailure("Private memories can only be saved in DM contexts")

\* a non-DM workspace that holds a memory and a patch, and whose last call was
\* a private save
C21_Witness ==
  /\ ~memIsDm
  /\ SavesPrivate(memOp)
  /\ ~memOp.result.success
  /\ Len(memFiles["public"].lines) = 2
  /\ memPatched # <<>>

\* the patches recorded for the n-th memory saved, made after it was saved
PatchesOn(n) ==
  SelectSeq(memPatched, LAMBDA p : p.target_id = MemIdOf(n) /\ p.issued >= n)

OnlyDisabled(n) ==
  /\ PatchesOn(n) # <<>>
  /\ \A k \in 1..Len(PatchesOn(n)) : PatchesOn(n)[k].changes = [enabled |-> FALSE]

ResolvedOf(id) ==
  SelectSeq(resolved(memFiles, memIsDm), LAMBDA m : m.id = id)

\* C22: after save(x) followed by one or more patch(id, {enabled:false}), the
\* resolved memory has content x and enabled false.
C22_DisableKeepsContent ==
  \A n \in 1..Len(memSaved) :
    OnlyDisabled(n) =>
      /\ Len(ResolvedOf(memSaved[n].id)) = 1
      /\ ResolvedOf(memSaved[n].id)[1].content = memSaved[n].content
      /\ ResolvedOf(memSaved[n].id)[1].enabled = FALSE

\* a memory disabled twice
C22_Witness ==
  /\ Len(memSaved) = 1
  /\ OnlyDisabled(1)
  /\ Len(PatchesOn(1)) = 2
  /\ ResolvedOf(memSaved[1].id)[1].enabled = FALSE

(***************************************************************************)
(* Properties of the context assembler                                     *)
(***************************************************************************)
\* C23: after formatting, the estimate of the system prompt plus the estimate
\* of the user message is at most the token limit, also when the system
\* prompt alone is at or above the limit.
C23_FormattedWithinLimit ==
  ctxOut # NoContext =>
    estimateTokens(ctxOut.systemMessage) + estimateTokens(ctxOut.userMessage)
      <= ctxIn.tokenLimit

(***************************************************************************)
(* Properties of the gateway's listener                                    *)
(***************************************************************************)
LoopbackHosts == {"127.0.0.1", "localhost", "::1"}

\* C24: the skill gateway refuses to start when its configured bind host is
\* not a loopback address; it never listens on a non-loopback interface.
C24_ListensOnLoopbackOnly ==
  srvServer # "" => srvServer \in LoopbackHosts

(***************************************************************************)
(* Properties of the inbound filter                                        *)
(***************************************************************************)
\* C26: no normalized event is emitted for a message authored by the bot
\* itself or by another bot account, on either platform.
C26_NoEventForBots ==
  inLast.emitted => (inLast.author.id # SelfId /\ ~inLast.author.bot)

(***************************************************************************)
(* Properties of reconnection                                              *)
(***************************************************************************)
\* the nominal wait before the k-th retry: 1s doubled k - 1 times, at most 60s
NominalWait(k) == Smaller(1000 * pow(2, k - 1), 60000)

WithinTenth(w) ==
  /\ 10 * w.ms >= 9 * NominalWait(w.attempt)
  /\ 10 * w.ms <= 11 * NominalWait(w.attempt)
  /\ w.ms <= 60000

\* C27: the wait before the first retry is the base delay of 1s and each later
\* wait doubles, capped at 60s; every actual wait is within 10% of that value
\* and never above 60s.
C27_BackoffDoublesFromBase ==
  /\ cmWait # NoWait => WithinTenth(cmWait)
  /\ mrWait # NoWait => WithinTenth(mrWait)

\* C28: with no max-attempts cap configured, reconnection never gives up and
\* the adapter never settles in the error state because attempts ran out.
C28_NeverGivesUp ==
  /\ cm.config.maxAttempts = 0 => cm.pc # "thrown"
  /\ mr.config.reconnect.maxAttempts = {} =>
        ~(mr.state = "error" /\ mr.lastError = "Max reconnect attempts reached")

(***************************************************************************)
(* Properties of the agent connector                                       *)
(***************************************************************************)

\* the last disconnect() call has returned
HasReturned == acLog.last.outcome # "none" /\ acPc.at # "race"

\* C29: disconnect() returns no later than DISCONNECT_TIMEOUT_MS after it sent
\* SIGTERM, and it returns normally, whether the process exits in time, had
\* exited before or never exits; when it returns, process, connection, client
\* and capabilities are null and isConnected is false.
C29_DisconnectReturnsInTime ==
  /\ acPc.at = "race" => acNow - acLog.last.started <= DISCONNECT_TIMEOUT_MS
  /\ HasReturned =>
       /\ acLog.last.outcome = "returned"
       /\ acLog.last.returned - acLog.last.started <= DISCONNECT_TIMEOUT_MS
       /\ acLog.last.connector = NullConnector
       /\ ~isConnected(acLog.last.connector)

\* a connected connector was disconnected, its process ignored SIGTERM and
\* disconnect() returned when the timer fired
C29_Witness ==
  /\ HasReturned
  /\ acLog.connect = "resolved"
  /\ acOs.state = "running" /\ acOs.sigterm
  /\ acLog.last.returned - acLog.last.started = DISCONNECT_TIMEOUT_MS
  /\ ac = NullConnector

\* C30: once connect() has reported the failure of initialize, the spawned
\* subprocess has been sent SIGTERM (or had exited by itself) and the
\* connector holds no process, connection or client: it is disconnected.
C30_InitializeFailureTearsDown ==
  acLog.connect = "rejected" /\ acLog.spawned =>
    /\ acOs.sigterm \/ acOs.state = "exited"
    /\ ac = NullConnector
    /\ ~isConnected(ac)

\* initialize failed, the subprocess exited on SIGTERM and connect() rejected
C30_Witness ==
  /\ acLog.connect = "rejected" /\ acLog.spawned
  /\ acOs.sigterm /\ acOs.state = "exited"
  /\ acLog.calls = 0
  /\ ~ac.process

(***************************************************************************)
(* Properties of the shutdown handler                                      *)
(***************************************************************************)

\* C31: however many times shutdown() is called, performShutdown() runs at
\* most once and Deno.exit is called at most once, and a shutdown() call has
\* completed only when that one sequence has run to its end and exited.
C31_ShutdownRunsOnce ==
  /\ sdLog.runs <= 1
  /\ sdProc.exits <= 1
  /\ \A c \in ShutdownCalls :
       sdCalls[c] = "done" => sd.at = "done" /\ sdLog.runs = 1 /\ sdProc.exits = 1

\* two shutdown() calls were made on a handler with a context, and both
\* have completed after the one sequence exited with 0
C31_Witness ==
  /\ \A c \in ShutdownCalls : sdCalls[c] = "done"
  /\ sd.context /\ sdProc.code = 0
  /\ sdLog.runs = 1
  /\ sdProc.exits = 1

AlreadySent == "Reply can only be sent once per interaction"

\* C33: orchestrations on the same workspace and channel do not interfere
\* through the reply state: a send-reply of an orchestration is rejected as
\* a second reply only when that orchestration has replied itself, and an
\* orchestration reports replySent only when a reply of its own was
\* delivered.
C33_ReplyStatesDoNotInterfere ==
  [][\A t \in TaskIds :
        /\ tasks'[t].resp.replySent => replies'[t] >= 1
        /\ \A p \in ParamKinds :
              (AgentSendReply(t, p)
                 /\ handleSendReplyBegin(replySentMap, tasks[t].key, p) = AlreadySent)
                => replies[t] >= 1]_vars

\* event t arrived when the earlier orchestrations on its workspace and
\* channel were over, and so did every later event there
Sequential(t) ==
  /\ tasks[t].seq
  /\ ~tasks[t].rejected
  /\ \A u \in TaskIds : (u > t /\ tasks[u].key = tasks[t].key) => tasks[u].seq

\* C34: an orchestration that starts on a workspace and channel after the
\* previous ones there are over (none overlaps it) has the reply state
\* cleared before its prompt: a send-reply with a valid message is rejected
\* as a second reply only after a reply of its own was delivered, whether or
\* not an earlier orchestration replied, and it reports replySent only when
\* a reply of its own was delivered.
C34_ReplyStateClearedBetweenInteractions ==
  [][\A t \in TaskIds :
        /\ (Sequential(t)' /\ tasks'[t].resp.replySent) => replies'[t] >= 1
        /\ (Sequential(t) /\ AgentSendReply(t, "text") /\ replies[t] = 0)
              => handleSendReplyBegin(replySentMap, tasks[t].key, "text") = "call"]_vars

\* the second event on a workspace and channel arrived after the first
\* orchestration had replied and returned; its own reply was delivered too
C34_Witness ==
  /\ tasks[1].key = tasks[2].key
  /\ tasks[1].pc = "done" /\ replies[1] = 1
  /\ Sequential(2) /\ replies[2] = 1
  /\ tasks[2].resp.replySent

(***************************************************************************)
(* Properties of the active set                                            *)
(***************************************************************************)

\* the events MessageHandler.handleEvent is processing
Processing == {t \in TaskIds : tasks[t].pc \in Running}

\* C35: the active set holds exactly the keys of the events being
\* processed, so the key of an event is gone once handleEvent has returned
\* for it, with whatever result; and an event whose message id is not being
\* processed when it arrives is admitted, also when that id was seen before.
C35_ActiveSetIsProcessing ==
  [][/\ activeEvents' = {eventKey(Platform, tasks'[t].msg) : t \in Processing'}
     /\ \A t \in TaskIds :
          (/\ tasks[t].pc = "idle" /\ tasks'[t].pc # "idle"
           /\ \A u \in Processing : tasks[u].msg # tasks'[t].msg)
            => ~tasks'[t].rejected /\ t \in Processing']_vars

\* a message id was delivered again after its first orchestration had
\* failed and returned, and the second delivery is being processed
C35_Witness ==
  /\ tasks[1].msg = tasks[2].msg
  /\ ~tasks[1].rejected /\ tasks[1].pc = "done" /\ ~tasks[1].resp.success
  /\ 2 \in Processing
  /\ activeEvents = {eventKey(Platform, tasks[2].msg)}

(***************************************************************************)
(* Properties of expired sessions in the registry                          *)
(***************************************************************************)

\* the record of id is in the map and its timeout has elapsed
Expired(id) == id \in DOMAIN sessions /\ isExpired(sessions[id], now)

\* C36: for a session whose timeout has elapsed, markReplySent returns false
\* and leaves the record as it was, and hasReplySent answers false, also
\* while the record is still in the map.
C36_ExpiredIsUnknown ==
  [][\A id \in SessionIds :
        /\ Expired(id)' => ~hasReplySent(sessions', id)
        /\ Expired(id) =>
             /\ markTrue'[id] = markTrue[id]
             /\ id \in DOMAIN sessions' => sessions'[id].replySent = sessions[id].replySent]_vars

(***************************************************************************)
(* Properties of ConnectionManager.disconnect                              *)
(***************************************************************************)

\* C37: once disconnect() of the manager has been called, the manager
\* starts no adapter.connect() attempt any more, and the adapter is not
\* left connected by an attempt that was under way.
C37_DisconnectIsFinal ==
  cm.disconnected => cm.attemptsAfter = 0 /\ cm.adapter # "connected"

(***************************************************************************)
(* Properties of the order of the gateway's checks                         *)
(***************************************************************************)

\* the session id of the body names a record whose timeout has not elapsed
ValidSession(body) ==
  body \in DOMAIN sessions /\ (now - sessions[body].startedAt) <= sessions[body].timeoutMs

\* the status of the first failing check in the order method, path,
\* sessionId present, session valid, skill known, not yet replied;
\* 0 when every check passes
FirstFailing(method, skill, body) ==
  IF method = "OPTIONS" THEN 204
  ELSE IF method # "POST" THEN 405
  ELSE IF skill = "" THEN 404
  ELSE IF body = NoSid THEN 400
  ELSE IF ~ValidSession(body) THEN 401
  ELSE IF skill \notin RegisteredSkills THEN 404
  ELSE IF skill = "send-reply" /\ sessions[body].replySent THEN 409
  ELSE 0

\* C38: a request whose body parses is answered with the status of the
\* first failing check in the order method (204 for OPTIONS, 405 for other
\* non-POST), path (404), sessionId present (400), session valid (401),
\* skill known (404), send-reply not yet replied (409), and the skill
\* handler is entered only when all pass; so an invalid session gets 401
\* whatever the skill and a replied session gets 409 whatever the parameters.
C38_FirstFailingCheckAnswers ==
  [][\A m \in Methods, sk \in PathSkills, b \in BodySids, p \in ParamKinds :
        GatewayReceive(m, sk, b, p) =>
           /\ lastResp'.status = FirstFailing(m, sk, b)
           /\ lastResp'.ran = (FirstFailing(m, sk, b) = 0)]_vars

\* a request for an unknown skill that carried the id of an expired session
\* was answered 401
C38_Witness ==
  /\ lastResp.status = 401
  /\ lastResp.skill = "does-not-exist"
  /\ lastResp.sid \in evicted

(***************************************************************************)
(* Properties of the MCP send_reply tool                                   *)
(***************************************************************************)

\* C39: of the send_reply calls of one interaction at most one succeeds,
\* and every call after a successful one returns the error 'Reply can only
\* be sent once per interaction'.
C39_McpReplyAtMostOnce ==
  \A i, j \in 1..Len(mcpResults) :
     (i < j /\ ~mcpResults[i].isError) =>
        mcpResults[j] = ToolResult(TRUE, "Error: Reply can only be sent once per interaction")

====
